---- MODULE Spec2Model ----
(***************************************************************************)
(* Video pipeline of ENI: the progress broadcaster of server/index.ts      *)
(* (videoSessions, the WebSocket handlers, broadcastProgress) and the      *)
(* pipeline run of server/services/videoService.ts (generateVideo and the  *)
(* POST /api/generate-video route that drives it).                         *)
(*                                                                         *)
(* Node runs every handler to completion on one event loop, and a promise  *)
(* continuation that needs no I/O runs as a microtask before any other     *)
(* handler.  One action of this model is therefore one macrotask: the code *)
(* from the completion of one I/O operation (HTTP response, child process  *)
(* event, timer, WebSocket frame) up to the next await that needs I/O.     *)
(* Two consecutive awaits on the same HTTP exchange with no publish and no *)
(* assignment between them (response, then body) are one step whose        *)
(* outcome says which of the two failed.                                   *)
(***************************************************************************)
EXTENDS Integers, Sequences, FiniteSets, TLC

\* ------------------------------------------------------------------ bounds
MaxHandles == 2
MaxSegments == 2
MaxStderrLines == 1

\* Two submissions, so that two runs can execute concurrently.
Runs == {1, 2}
Handles == 1..MaxHandles

\* randomUUID() gives every accepted request its own session identifier: the
\* identifier of run r is r.  Clients may name any of them in a subscribe.
SessionIds == Runs

\* ----------------------------------------------------------------- values
NoData == [kind |-> "none"]
NoPath == [dir |-> "", kind |-> "", stamp |-> 0, idx |-> 0]

TerminalSteps == {"completed", "error"}

\* No submission yet.
NoRequest == [n |-> 0, textsOk |-> FALSE]

\* ------------------------------------------------------------------ state
VARIABLES
  videoSessions,   \* index.ts: Map sessionId -> Set of handles (a function on the keys present)
  wsState,         \* readyState of each WebSocket handle
  sent,            \* the ws.send() calls of the last handler: [handle, msg]
  delivered,       \* history: per handle, the first-step and terminal messages it was sent
  subscribed,      \* history: per handle, the session identifiers it ever subscribed to
  pc,              \* position of each run
  request,         \* history: the body of the submission, [n, textsOk]
  nSegments,       \* imagePrompts.length of the run's request
  response,        \* what the route answered to the submission
  audioPath,       \* generateVideo: let audioPath
  imagePaths,      \* generateVideo: let imagePaths
  genImagePaths,   \* generateAllImages: const imagePaths
  imgIndex,        \* generateAllImages: loop variable i
  isResolved,      \* createVideoWithFFmpeg: let isResolved
  timeoutArmed,    \* createVideoWithFFmpeg: the 120 s timer is pending
  ffmpeg,          \* state of the encoder child process
  stderrLines,     \* encoder progress lines handled so far (bounded)
  settled,         \* history: resolve/reject calls on the compose promise
  outcome,         \* how the async run of the route ended
  files,           \* the filesystem: set of existing paths
  unlinkFails,     \* the filesystem: paths whose unlinkSync throws (EPERM, EBUSY)
  clock,           \* Date.now() as each run reads it when it names a file
  voiceovers,      \* the trimmed voiceover texts of a submission, by segment position
  ffprobe,         \* the durations ffprobe reports, in tenths of a second: [audio, output]
  trace            \* history: per run, its operations in program order

bcastVars == <<videoSessions, wsState, sent, delivered, subscribed>>
runVars == <<pc, nSegments, request, response, audioPath, imagePaths, genImagePaths, imgIndex,
             isResolved, timeoutArmed, ffmpeg, stderrLines, settled, outcome>>
envVars == <<unlinkFails, clock, voiceovers, ffprobe>>
vars == <<videoSessions, wsState, sent, delivered, subscribed, pc, nSegments, request, response,
          audioPath, imagePaths, genImagePaths, imgIndex, isResolved, timeoutArmed,
          ffmpeg, stderrLines, settled, outcome, files, unlinkFails, clock, voiceovers, ffprobe, trace>>

\* ------------------------------------------------------------- file names
\* The temporary names carry Date.now() at the time of creation, clock[r] for
\* run r; the public name carries a randomUUID(), here the run.
AudioFile(r) == [dir |-> "/tmp", kind |-> "voiceover", stamp |-> clock[r], idx |-> 0]
ImageFile(r, k) == [dir |-> "/tmp", kind |-> "image", stamp |-> clock[r], idx |-> k]
OutputFile(r) == [dir |-> "/tmp", kind |-> "video", stamp |-> clock[r], idx |-> 0]
PublicFile(r) == [dir |-> "public/videos", kind |-> "video", stamp |-> r, idx |-> 0]

\* ------------------------------------------------------- trace operations
Pub(step) == [op |-> "publish", step |-> step, data |-> NoData, path |-> NoPath]
PubData(step, d) == [op |-> "publish", step |-> step, data |-> d, path |-> NoPath]
Call(what, k) == [op |-> "call", step |-> what, data |-> NoData,
                  path |-> [dir |-> "", kind |-> "", stamp |-> 0, idx |-> k]]
Write(p) == [op |-> "write", step |-> "", data |-> NoData, path |-> p]
Unlink(p) == [op |-> "unlink", step |-> "", data |-> NoData, path |-> p]
Rename(p) == [op |-> "rename", step |-> "", data |-> NoData, path |-> p]
\* A call whose argument or result d the history keeps.
CallWith(what, d) == [op |-> "call", step |-> what, data |-> d,
                      path |-> [dir |-> "", kind |-> "", stamp |-> 0, idx |-> 0]]
\* unlinkSync threw inside its try block; the catch only logs.
UnlinkFailed(p) == [op |-> "unlink-failed", step |-> "", data |-> NoData, path |-> p]
\* generateVideo's catch block has caught the error with message msg.
Caught(msg) == [op |-> "catch", step |-> "", data |-> [kind |-> "caught", message |-> msg],
                path |-> NoPath]

\* --------------------------------------------------- broadcaster (index.ts)
\* Variant: the message goes to the handles of every session in the registry.
broadcastProgressToAll(vs, sessionId, step, completionData, seq) ==
  IF sessionId \notin DOMAIN vs
  THEN [vs |-> vs, out |-> {}]
  ELSE LET clients == UNION {vs[s] : s \in DOMAIN vs}
           progressData == [type |-> IF step \in {"completed", "error"} THEN step ELSE "progress",
                            sessionId |-> sessionId,
                            step |-> step,
                            timestamp |-> seq,
                            data |-> completionData]
       IN [vs |-> IF step \in {"completed", "error"}
                  THEN [s \in DOMAIN vs \ {sessionId} |-> vs[s]]
                  ELSE vs,
           out |-> {[handle |-> h, msg |-> progressData] :
                      h \in {c \in clients : wsState[c] = "OPEN"}}]

\* Variant: a terminal event leaves the session record in place.
broadcastProgressKeepsSession(vs, sessionId, step, completionData, seq) ==
  IF sessionId \notin DOMAIN vs
  THEN [vs |-> vs, out |-> {}]
  ELSE LET clients == vs[sessionId]
           progressData == [type |-> IF step \in {"completed", "error"} THEN step ELSE "progress",
                            sessionId |-> sessionId,
                            step |-> step,
                            timestamp |-> seq,
                            data |-> completionData]
       IN [vs |-> vs,
           out |-> {[handle |-> h, msg |-> progressData] :
                      h \in {c \in clients : wsState[c] = "OPEN"}}]

\* Variant: a terminal event removes the session record before the delivery loop.
broadcastProgressDeletesFirst(vs, sessionId, step, completionData, seq) ==
  IF sessionId \notin DOMAIN vs
  THEN [vs |-> vs, out |-> {}]
  ELSE LET terminal == step \in {"completed", "error"}
           clients == IF terminal THEN {} ELSE vs[sessionId]
           progressData == [type |-> IF terminal THEN step ELSE "progress",
                            sessionId |-> sessionId,
                            step |-> step,
                            timestamp |-> seq,
                            data |-> completionData]
       IN [vs |-> IF terminal
                  THEN [s \in DOMAIN vs \ {sessionId} |-> vs[s]]
                  ELSE vs,
           out |-> {[handle |-> h, msg |-> progressData] :
                      h \in {c \in clients : wsState[c] = "OPEN"}}]

\* Variant: the delivery loop does not look at readyState.
broadcastProgressIgnoresReadyState(vs, sessionId, step, completionData, seq) ==
  IF sessionId \notin DOMAIN vs
  THEN [vs |-> vs, out |-> {}]
  ELSE LET clients == vs[sessionId]
           progressData == [type |-> IF step \in {"completed", "error"} THEN step ELSE "progress",
                            sessionId |-> sessionId,
                            step |-> step,
                            timestamp |-> seq,
                            data |-> completionData]
       IN [vs |-> IF step \in {"completed", "error"}
                  THEN [s \in DOMAIN vs \ {sessionId} |-> vs[s]]
                  ELSE vs,
           out |-> {[handle |-> h, msg |-> progressData] : h \in clients}]

\* Variant: a terminal event clears the whole registry.
broadcastProgressClearsRegistry(vs, sessionId, step, completionData, seq) ==
  IF sessionId \notin DOMAIN vs
  THEN [vs |-> vs, out |-> {}]
  ELSE LET clients == vs[sessionId]
           progressData == [type |-> IF step \in {"completed", "error"} THEN step ELSE "progress",
                            sessionId |-> sessionId,
                            step |-> step,
                            timestamp |-> seq,
                            data |-> completionData]
       IN [vs |-> IF step \in {"completed", "error"}
                  THEN [s \in {} |-> {}]
                  ELSE vs,
           out |-> {[handle |-> h, msg |-> progressData] :
                      h \in {c \in clients : wsState[c] = "OPEN"}}]

\* broadcastProgress on the registry vs: the registry afterwards and the
\* ws.send() calls made.  seq is the ordinal of the call in the publishing run,
\* standing for the timestamp.
broadcastProgress(vs, sessionId, step, completionData, seq) ==
  IF sessionId \notin DOMAIN vs
  THEN [vs |-> vs, out |-> {}]
  ELSE LET clients == vs[sessionId]
           progressData == [type |-> IF step \in TerminalSteps THEN step ELSE "progress",
                            sessionId |-> sessionId,
                            step |-> step,
                            timestamp |-> seq,
                            data |-> completionData]
       IN [vs |-> IF step \in TerminalSteps
                  THEN [s \in DOMAIN vs \ {sessionId} |-> vs[s]]
                  ELSE vs,
           out |-> {[handle |-> h, msg |-> progressData] :
                      h \in {c \in clients : wsState[c] = "OPEN"}}]

\* The messages the delivery history keeps: a run's first event and the terminal ones.
Recorded(msg) == msg.type \in TerminalSteps \/ msg.step = "initializing"

\* Variant: a subscriber is sent the run's first event again when it subscribes.
OnMessageReplays(h, m) ==
  /\ wsState[h] = "OPEN"
  /\ IF m.type = "subscribe" /\ m.sessionId # 0
     THEN /\ videoSessions' =
               [s \in DOMAIN videoSessions \cup {m.sessionId} |->
                  IF s = m.sessionId
                  THEN (IF s \in DOMAIN videoSessions THEN videoSessions[s] ELSE {}) \cup {h}
                  ELSE videoSessions[s]]
          /\ subscribed' = [subscribed EXCEPT ![h] = @ \cup {m.sessionId}]
          /\ sent' = IF trace[m.sessionId] = << >> THEN {}
                     ELSE {[handle |-> h,
                            msg |-> [type |-> "progress", sessionId |-> m.sessionId,
                                     step |-> trace[m.sessionId][1].step, timestamp |-> 1,
                                     data |-> trace[m.sessionId][1].data]]}
     ELSE /\ sent' = {}
          /\ UNCHANGED <<videoSessions, subscribed>>
  /\ UNCHANGED <<wsState, delivered, files, envVars, trace>>
  /\ UNCHANGED runVars

\* Variant: a subscription to a session without a record creates the record
\* and does not add the handle.
OnMessageCreatesEmpty(h, m) ==
  /\ wsState[h] = "OPEN"
  /\ sent' = {}
  /\ IF m.type = "subscribe" /\ m.sessionId # 0
     THEN /\ videoSessions' =
               [s \in DOMAIN videoSessions \cup {m.sessionId} |->
                  IF s \in DOMAIN videoSessions
                  THEN (IF s = m.sessionId THEN videoSessions[s] \cup {h} ELSE videoSessions[s])
                  ELSE {}]
          /\ subscribed' = [subscribed EXCEPT ![h] = @ \cup {m.sessionId}]
     ELSE UNCHANGED <<videoSessions, subscribed>>
  /\ UNCHANGED <<wsState, delivered, files, envVars, trace>>
  /\ UNCHANGED runVars

\* ws.on('message'): the parsed frame m subscribes the handle when it is a
\* subscribe message with a truthy sessionId; anything else is ignored.
Frames ==
  [type : {"subscribe"}, sessionId : SessionIds \cup {0}] \cup
  [type : {"ping"}, sessionId : {0}]

OnMessage(h, m) ==
  /\ wsState[h] = "OPEN"
  /\ sent' = {}
  /\ IF m.type = "subscribe" /\ m.sessionId # 0
     THEN /\ videoSessions' =
               [s \in DOMAIN videoSessions \cup {m.sessionId} |->
                  IF s = m.sessionId
                  THEN (IF s \in DOMAIN videoSessions THEN videoSessions[s] ELSE {}) \cup {h}
                  ELSE videoSessions[s]]
          /\ subscribed' = [subscribed EXCEPT ![h] = @ \cup {m.sessionId}]
     ELSE UNCHANGED <<videoSessions, subscribed>>
  /\ UNCHANGED <<wsState, delivered, files, envVars, trace>>
  /\ UNCHANGED runVars

\* wss.on('connection')
OnConnection(h) ==
  /\ wsState[h] = "NONE"
  /\ IF h = 1 THEN TRUE ELSE wsState[h - 1] # "NONE"
  /\ wsState' = [wsState EXCEPT ![h] = "OPEN"]
  /\ sent' = {}
  /\ UNCHANGED <<videoSessions, delivered, subscribed, files, envVars, trace>>
  /\ UNCHANGED runVars

\* The closing handshake has begun: readyState is CLOSING, 'close' not yet emitted.
BeginClose(h) ==
  /\ wsState[h] = "OPEN"
  /\ wsState' = [wsState EXCEPT ![h] = "CLOSING"]
  /\ sent' = {}
  /\ UNCHANGED <<videoSessions, delivered, subscribed, files, envVars, trace>>
  /\ UNCHANGED runVars

\* Variant: the close handler removes the handle and keeps emptied records.
OnCloseKeepsEmpty(h) ==
  /\ wsState[h] \in {"OPEN", "CLOSING"}
  /\ wsState' = [wsState EXCEPT ![h] = "CLOSED"]
  /\ videoSessions' = [s \in DOMAIN videoSessions |-> videoSessions[s] \ {h}]
  /\ sent' = {}
  /\ UNCHANGED <<delivered, subscribed, files, envVars, trace>>
  /\ UNCHANGED runVars

\* ws.on('close')
OnClose(h) ==
  /\ wsState[h] \in {"OPEN", "CLOSING"}
  /\ wsState' = [wsState EXCEPT ![h] = "CLOSED"]
  /\ videoSessions' =
       [s \in {t \in DOMAIN videoSessions : videoSessions[t] \ {h} # {}} |->
          videoSessions[s] \ {h}]
  /\ sent' = {}
  /\ UNCHANGED <<delivered, subscribed, files, envVars, trace>>
  /\ UNCHANGED runVars

\* ------------------------------------------------ applying a run's operations
RECURSIVE Apply(_, _, _, _, _, _)
Apply(vs, out, fs, sessionId, ops, seq) ==
  IF ops = << >>
  THEN [vs |-> vs, out |-> out, fs |-> fs]
  ELSE LET e == Head(ops)
           B == IF e.op = "publish"
                THEN broadcastProgress(vs, sessionId, e.step, e.data, seq + 1)
                ELSE [vs |-> vs, out |-> {}]
           F == CASE e.op = "write" -> fs \cup {e.path}
                  [] e.op = "unlink" -> fs \ {e.path}
                  [] e.op = "rename" -> (fs \ {OutputFile(sessionId)}) \cup {e.path}
                  [] OTHER -> fs
       IN Apply(B.vs, out \cup B.out, F, sessionId, Tail(ops), seq + 1)

\* The run r performs ops, in order, within one macrotask.
Do(r, ops) ==
  LET S == Apply(videoSessions, {}, files, r, ops, Len(trace[r]))
  IN /\ videoSessions' = S.vs
     /\ sent' = S.out
     /\ delivered' = [h \in Handles |->
                        delivered[h] \cup {d.msg : d \in {x \in S.out : x.handle = h /\ Recorded(x.msg)}}]
     /\ files' = S.fs
     /\ trace' = [trace EXCEPT ![r] = @ \o ops]
     /\ UNCHANGED envVars

\* ------------------------------------- calculateOptimalTimings (35-100)
\* A voiceover text, as far as the allocator looks at it: the number of
\* fields of split(/\s+/), the length, the number of [.,!?;:] characters,
\* whether it has '!' or one of 'important', 'critical', 'key', and whether it
\* has one of 'call to action', 'contact', 'today', 'now'.
\* Durations are integers in tenths of a second; weights are integers in
\* units of 1/2500, so that the factors 0.7, 0.02, 0.5, 1.2 and 1.1 are exact.
Min(a, b) == IF a < b THEN a ELSE b
Max(a, b) == IF a > b THEN a ELSE b

RECURSIVE SumSeq(_)
SumSeq(q) == IF q = << >> THEN 0 ELSE Head(q) + SumSeq(Tail(q))

\* Math.round(num / den) for den > 0 and num >= 0: halves round up.
RoundDiv(num, den) == (2 * num + den) \div (2 * den)

\* wordCount * 0.7 + charCount * 0.02 + punctuationCount * 0.5, in units
\* of 1 / 50.
BaseWeight(t) == 35 * t.words + t.chars + 25 * t.punct
\* The factor of the two weight adjustments, 1.2 for emphasis and 1.1 for a
\* call to action, in units of 1 / 50.
Boost(t) ==
  IF t.emphasis /\ t.cta THEN 66 ELSE IF t.emphasis THEN 60 ELSE IF t.cta THEN 55 ELSE 50
\* The weight pushed for a segment: the base weight times its adjustments,
\* and then at least 2.
SegmentWeight(t) == Max(BaseWeight(t) * Boost(t), 5000)

\* targetDuration = 25 + 15 * min(avgWords / 15, 1) as the fraction
\* TargetNum / n of seconds, n being the number of segments.
TargetNum(segs) ==
  25 * Len(segs) + Min(SumSeq([i \in DOMAIN segs |-> segs[i].words]), 15 * Len(segs))

\* The first loop over the weights: the proportional share, clamped to
\* [2.5, 12] and rounded to one decimal place.
ProportionalTimings(segs) ==
  LET n == Len(segs)
      w == [i \in DOMAIN segs |-> SegmentWeight(segs[i])]
      total == SumSeq(w)
      num(i) == 10 * w[i] * TargetNum(segs)
      den == total * n
  IN [i \in DOMAIN segs |->
        IF num(i) <= 25 * den THEN 25
        ELSE IF num(i) >= 120 * den THEN 120
        ELSE RoundDiv(num(i), den)]

\* Variant: the plan is returned without the final rescale.
calculateOptimalTimingsNoRescale(segs) == ProportionalTimings(segs)

\* The plan returned: the proportional plan, rescaled to the target when its
\* sum is below 25 or above 40.
calculateOptimalTimings(segs) ==
  LET n == Len(segs)
      timings == ProportionalTimings(segs)
      actualTotal == SumSeq(timings)
  IN IF actualTotal < 250 \/ actualTotal > 400
     THEN [i \in DOMAIN segs |-> RoundDiv(10 * timings[i] * TargetNum(segs), n * actualTotal)]
     ELSE timings

\* Voiceover texts: "Hi", "Now!", "Call now!", a sentence of eleven words, and
\* a paragraph of thirty-two words that says 'important'.
ShortText == [words |-> 1, chars |-> 2, punct |-> 0, emphasis |-> FALSE, cta |-> FALSE]
NowText == [words |-> 1, chars |-> 4, punct |-> 1, emphasis |-> TRUE, cta |-> TRUE]
ShoutText == [words |-> 2, chars |-> 9, punct |-> 1, emphasis |-> TRUE, cta |-> TRUE]
MediumText == [words |-> 11, chars |-> 61, punct |-> 1, emphasis |-> FALSE, cta |-> FALSE]
LongText == [words |-> 32, chars |-> 170, punct |-> 3, emphasis |-> TRUE, cta |-> FALSE]
Texts == {ShortText, NowText, ShoutText, MediumText, LongText}

\* generateVideo: voiceoverSegments of run r, and the plan computed for them.
voiceoverSegments(r) == SubSeq(voiceovers, 1, nSegments[r])
optimizedTimings(r) == calculateOptimalTimings(voiceoverSegments(r))
segmentWeights(r) ==
  [i \in 1..nSegments[r] |-> SegmentWeight(voiceoverSegments(r)[i])]

\* ------------------------------------ createVideoWithFFmpeg (254-343)
\* A timing that was multiplied by scaleFactor is the fraction num / den of
\* tenths of a second; what is written into the filter graph with toFixed(3)
\* is an integer number of milliseconds.
Abs(a) == IF a < 0 THEN 0 - a ELSE a

numCrossfades(n) == Max(0, n - 1)
fadeDuration(n) == IF n > 1 THEN 10 ELSE 0

\* rawVideoDuration - totalCrossfadeDuration
calculatedVideoDuration(timings) ==
  SumSeq(timings) - numCrossfades(Len(timings)) * fadeDuration(Len(timings))

\* Variant: the timings are never rescaled to the audio.
adjustedTimingsNever(timings, audioDuration) ==
  [i \in DOMAIN timings |-> [num |-> timings[i], den |-> 1]]

\* Variant: the timings are rescaled however close the durations are.
adjustedTimingsAlways(timings, audioDuration) ==
  LET total == numCrossfades(Len(timings)) * fadeDuration(Len(timings))
      targetRawDuration == Min(400, Max(250, audioDuration)) + total
  IN [i \in DOMAIN timings |->
        [num |-> timings[i] * targetRawDuration, den |-> SumSeq(timings)]]

\* The timings rescaled to the audio duration, held within 25 to 40 s, when it
\* is more than 0.5 s away from the calculated video duration.
adjustedTimings(timings, audioDuration) ==
  LET total == numCrossfades(Len(timings)) * fadeDuration(Len(timings))
      targetDuration == Min(400, Max(250, audioDuration))
      targetRawDuration == targetDuration + total
  IN IF Abs(audioDuration - calculatedVideoDuration(timings)) > 5
     THEN [i \in DOMAIN timings |->
             [num |-> timings[i] * targetRawDuration, den |-> SumSeq(timings)]]
     ELSE [i \in DOMAIN timings |-> [num |-> timings[i], den |-> 1]]

\* x.toFixed(3) of a fraction of tenths of a second, in milliseconds.
ToFixed3(num, den) == IF num <= 0 THEN 0 ELSE RoundDiv(100 * num, den)

\* Variant: a transition is also built after the last segment.
xfadeFiltersOnePerSegment(adjusted) ==
  LET n == Len(adjusted)
      cumulativeOffset(i) ==
        SumSeq([j \in 1..i |-> adjusted[j].num]) - i * fadeDuration(n) * adjusted[1].den
  IN [i \in 1..n |->
        [duration |-> 100 * fadeDuration(n),
         offset |-> ToFixed3(Max(0, cumulativeOffset(i)), adjusted[1].den)]]

\* Variant: the offsets do not allow for the overlap of the earlier fades.
xfadeFiltersNoOverlap(adjusted) ==
  LET n == Len(adjusted)
      cumulativeOffset(i) == SumSeq([j \in 1..i |-> adjusted[j].num])
  IN [i \in 1..(n - 1) |->
        [duration |-> 100 * fadeDuration(n),
         offset |-> ToFixed3(Max(0, cumulativeOffset(i)), adjusted[1].den)]]

\* The xfade filters of the transition chain: for i from 1 to n - 1 the
\* offset is the sum of the first i timings less i fades, not below 0.
xfadeFilters(adjusted) ==
  LET n == Len(adjusted)
      cumulativeOffset(i) ==
        SumSeq([j \in 1..i |-> adjusted[j].num]) - i * fadeDuration(n) * adjusted[1].den
  IN [i \in 1..(n - 1) |->
        [duration |-> 100 * fadeDuration(n),
         offset |-> ToFixed3(Max(0, cumulativeOffset(i)), adjusted[1].den)]]

\* Math.min(40, Math.max(25, audioDuration)), the duration the progress of
\* the encoder is measured against.
targetDuration == Min(400, Max(250, ffprobe.audio))

\* A 'creating-video' event with the progress value num / den and the
\* message m.
ProgressOf(num, den, m) ==
  [op |-> "publish", step |-> "creating-video",
   data |-> [kind |-> "progress", num |-> num, den |-> den, message |-> m],
   path |-> NoPath]
Progress(p, m) == ProgressOf(p, 1, m)

\* Variant: the progress of a line is not capped.
EncodingProgressUncapped(currentTime, target) ==
  ProgressOf(30 * target + 65 * currentTime, target, "encoding")

\* The event for a progress line: 30 + (currentTime / targetDuration) * 65,
\* and at most 95.
EncodingProgress(currentTime, target) ==
  ProgressOf(Min(95 * target, 30 * target + 65 * currentTime), target, "encoding")

\* The elapsed encode times a progress line may report, in tenths of a
\* second, and the one the larger specifications use.
ElapsedTimes == {0, 150, 250, 400, 900}
TypicalTime == 150

\* The arguments the encoder is started with by run r.
FfmpegArgs(r) ==
  LET adjusted == adjustedTimings(optimizedTimings(r), ffprobe.audio)
  IN [kind |-> "args",
      inputs |-> imagePaths[r],
      timings |-> adjusted,
      trims |-> [i \in DOMAIN adjusted |-> ToFixed3(adjusted[i].num, adjusted[i].den)],
      xfades |-> xfadeFilters(adjusted)]

\* ------------------------------------------------ errors (videoService.ts)
\* Error messages, as the words the route's categorisation looks for.
MsgTtsFailed == <<"TTS", "generation", "failed", ":">>
MsgNoAudioUrl == <<"No", "audio", "URL", "returned", "from", "TTS", "service">>
MsgAudioDownload == <<"Failed", "to", "download", "audio", ":">>
MsgImageFailed == <<"Image", "generation", "failed", "for", "prompt">>
MsgNoImageUrl == <<"No", "image", "URL", "returned", "for", "prompt">>
MsgImageDownload == <<"Failed", "to", "download", "image", ":">>
MsgBody == <<"Unexpected", "end", "of", "input">>
MsgProbeFailed == <<"FFprobe", "failed", "with", "code">>
MsgProbeSpawn == <<"FFprobe", "spawn", "error", ":">>
MsgTimeout == <<"FFmpeg", "timeout", "after", "120", "seconds", ".", "Stderr", ":">>
MsgFfmpegFailed == <<"FFmpeg", "failed", "with", "code">>
MsgFfmpegSpawn == <<"FFmpeg", "spawn", "error", ":">>
MsgVideoDuration(cause) == <<"Failed", "to", "get", "video", "duration", ":">> \o cause
MsgRename == <<"EXDEV", ":", "cross-device", "link", "not", "permitted", ",", "rename">>

\* String.prototype.includes on the words of a message.
Includes(msg, words) ==
  \E k \in 0..(Len(msg) - Len(words)) :
    \A j \in 1..Len(words) : msg[k + j] = words[j]

\* The route's catch block: the error code, message and details of the payload.
ErrorData(msg) ==
  IF Includes(msg, <<"TTS", "generation", "failed">>)
  THEN [kind |-> "error", code |-> "TTS_SERVICE_ERROR",
        message |-> "Failed to generate audio for video",
        details |-> "Please check your text-to-speech service configuration"]
  ELSE IF Includes(msg, <<"Image", "generation", "failed">>)
  THEN [kind |-> "error", code |-> "IMAGE_SERVICE_ERROR",
        message |-> "Failed to generate images for video",
        details |-> "Please check your image generation service configuration"]
  ELSE IF Includes(msg, <<"FFmpeg", "failed">>)
  THEN [kind |-> "error", code |-> "VIDEO_PROCESSING_ERROR",
        message |-> "Failed to process video",
        details |-> "Video encoding failed. Please try again"]
  ELSE [kind |-> "error", code |-> "INTERNAL_ERROR",
        message |-> "Video generation failed",
        details |-> "An unexpected error occurred"]

\* Variant: the reported duration is the one calculated from the plan.
CompletionDataCalculated(r) ==
  [kind |-> "completed", videoUrl |-> PublicFile(r),
   duration |-> calculatedVideoDuration(optimizedTimings(r)),
   optimizedTimings |-> optimizedTimings(r)]

\* The payload of the route's completion broadcast: the public URL and the
\* duration and optimizedTimings of generateVideo's result, that is the
\* duration probed from the output and the plan of calculateOptimalTimings.
CompletionData(r) ==
  [kind |-> "completed", videoUrl |-> PublicFile(r),
   duration |-> ffprobe.output, optimizedTimings |-> optimizedTimings(r)]

\* ---------------------------------------------- generateVideo: finally block
\* Variant: one try block around the whole loop, so the first unlink that
\* throws ends it.
RECURSIVE UnlinkAllStopsAtFailure(_, _)
UnlinkAllStopsAtFailure(paths, fs) ==
  IF paths = << >> THEN << >>
  ELSE IF Head(paths) \in fs /\ Head(paths) \in unlinkFails
  THEN <<UnlinkFailed(Head(paths))>>
  ELSE (IF Head(paths) \in fs THEN <<Unlink(Head(paths))>> ELSE << >>)
       \o UnlinkAllStopsAtFailure(Tail(paths), fs)

\* try { if (fs.existsSync(path)) fs.unlinkSync(path) } catch { log } for each
\* path in turn: a throwing unlink is logged and the next path is tried.
RECURSIVE UnlinkAll(_, _)
UnlinkAll(paths, fs) ==
  IF paths = << >> THEN << >>
  ELSE (IF Head(paths) \in fs
        THEN <<IF Head(paths) \in unlinkFails
               THEN UnlinkFailed(Head(paths))
               ELSE Unlink(Head(paths))>>
        ELSE << >>)
       \o UnlinkAll(Tail(paths), fs)

\* Variant: the finally block forgets the audio file.
CleanupOpsImagesOnly(r) ==
  <<[op |-> "publish", step |-> "finalizing", data |-> [kind |-> "none"],
     path |-> [dir |-> "", kind |-> "", stamp |-> 0, idx |-> 0]]>>
  \o UnlinkAll(imagePaths[r], files)

\* Removes the files named by generateVideo's imagePaths and audioPath.
CleanupOps(r) ==
  <<Pub("finalizing")>>
  \o UnlinkAll(imagePaths[r], files)
  \o (IF audioPath[r] # NoPath THEN UnlinkAll(<<audioPath[r]>>, files) ELSE << >>)

\* An error with message msg is thrown inside generateVideo's try block after
\* the operations pre: generateVideo's catch and finally, then the route's catch.
Throw(r, pre, msg) ==
  /\ Do(r, pre \o <<Caught(msg), Pub("error")>> \o CleanupOps(r)
            \o <<PubData("error", ErrorData(msg))>>)
  /\ pc' = [pc EXCEPT ![r] = "done"]
  /\ outcome' = [outcome EXCEPT ![r] = "failed"]

\* Variant: the encoder handlers leave the output file where it is.
UnlinkOutputSkipped(r) == << >>

\* fs.existsSync(outputPath) && fs.unlinkSync(outputPath) in the encoder handlers.
UnlinkOutput(r) == UnlinkAll(<<OutputFile(r)>>, files)

\* ------------------------------------------------------- route and pipeline
MaxPrompts == 6

\* Variant: the schema puts no upper limit on the number of prompts.
ValidRequestNoMax(n, textsOk) == n >= 1 /\ textsOk

\* generateVideoRequestSchema.parse: 1..6 prompts, both texts non-empty.
ValidRequest(n, textsOk) == n >= 1 /\ n <= MaxPrompts /\ textsOk

\* Variant: an accepted request is not answered before the run is started.
SubmitWithoutResponse(r, n, textsOk) ==
  /\ pc[r] = "idle"
  /\ IF r = 1 THEN TRUE ELSE pc[r - 1] # "idle"
  /\ IF ValidRequest(n, textsOk)
     THEN /\ pc' = [pc EXCEPT ![r] = "importing"]
          /\ UNCHANGED response
          /\ nSegments' = [nSegments EXCEPT ![r] = n]
     ELSE /\ pc' = [pc EXCEPT ![r] = "rejected"]
          /\ response' = [response EXCEPT ![r] = "INVALID_REQUEST"]
          /\ UNCHANGED nSegments
  /\ request' = [request EXCEPT ![r] = [n |-> n, textsOk |-> textsOk]]
  /\ sent' = {}
  /\ UNCHANGED <<audioPath, imagePaths, genImagePaths, imgIndex, isResolved,
                 timeoutArmed, ffmpeg, stderrLines, settled, outcome, files, envVars, trace>>
  /\ UNCHANGED <<videoSessions, wsState, delivered, subscribed>>

\* app.post("/api/generate-video"): validation, the immediate response, and the
\* start of the asynchronous run up to its dynamic import.
Submit(r, n, textsOk) ==
  /\ pc[r] = "idle"
  /\ IF r = 1 THEN TRUE ELSE pc[r - 1] # "idle"
  /\ IF ValidRequest(n, textsOk)
     THEN /\ pc' = [pc EXCEPT ![r] = "importing"]
          /\ response' = [response EXCEPT ![r] = "sessionId"]
          /\ nSegments' = [nSegments EXCEPT ![r] = n]
     ELSE /\ pc' = [pc EXCEPT ![r] = "rejected"]
          /\ response' = [response EXCEPT ![r] = "INVALID_REQUEST"]
          /\ UNCHANGED nSegments
  /\ request' = [request EXCEPT ![r] = [n |-> n, textsOk |-> textsOk]]
  /\ sent' = {}
  /\ UNCHANGED <<audioPath, imagePaths, genImagePaths, imgIndex, isResolved,
                 timeoutArmed, ffmpeg, stderrLines, settled, outcome, files, envVars, trace>>
  /\ UNCHANGED <<videoSessions, wsState, delivered, subscribed>>

\* generateVideo up to the TTS request of generateAudioFile.
StartRun(r) ==
  /\ pc[r] = "importing"
  /\ Do(r, <<Pub("initializing"), Pub("calculating-timings"),
             CallWith("calculateOptimalTimings",
                      [kind |-> "timings", plan |-> optimizedTimings(r),
                       weights |-> segmentWeights(r)]),
             Pub("generating-audio"), Call("generate-tts", 0)>>)
  /\ pc' = [pc EXCEPT ![r] = "tts-fetch"]
  /\ UNCHANGED <<nSegments, request, response, audioPath, imagePaths, genImagePaths, imgIndex,
                 isResolved, timeoutArmed, ffmpeg, stderrLines, settled, outcome>>
  /\ UNCHANGED <<wsState, subscribed>>

\* Variant: a non-success TTS response is answered by requesting again.
TtsResponseRetries(r, res) ==
  /\ pc[r] = "tts-fetch"
  /\ IF res = "ok"
     THEN /\ Do(r, <<Pub("generating-audio")>>)
          /\ pc' = [pc EXCEPT ![r] = "tts-json"]
     ELSE /\ Do(r, <<Call("generate-tts", 0)>>)
          /\ UNCHANGED pc
  /\ UNCHANGED outcome
  /\ UNCHANGED <<nSegments, request, response, audioPath, imagePaths, genImagePaths, imgIndex,
                 isResolved, timeoutArmed, ffmpeg, stderrLines, settled>>
  /\ UNCHANGED <<wsState, subscribed>>

\* Variant: the status of the TTS response is looked at only after the first
\* image request has been issued.
TtsResponseChecksLate(r, res) ==
  /\ pc[r] = "tts-fetch"
  /\ IF res = "ok"
     THEN /\ Do(r, <<Pub("generating-audio")>>)
          /\ pc' = [pc EXCEPT ![r] = "tts-json"]
          /\ UNCHANGED outcome
     ELSE Throw(r, <<Pub("generating-images"), Call("generate-image", 1)>>, MsgTtsFailed)
  /\ UNCHANGED <<nSegments, request, response, audioPath, imagePaths, genImagePaths, imgIndex,
                 isResolved, timeoutArmed, ffmpeg, stderrLines, settled>>
  /\ UNCHANGED <<wsState, subscribed>>

\* generateAudioFile: the TTS response arrives.
TtsResponse(r, res) ==
  /\ pc[r] = "tts-fetch"
  /\ IF res = "ok"
     THEN /\ Do(r, <<Pub("generating-audio")>>)
          /\ pc' = [pc EXCEPT ![r] = "tts-json"]
          /\ UNCHANGED outcome
     ELSE Throw(r, << >>, MsgTtsFailed)
  /\ UNCHANGED <<nSegments, request, response, audioPath, imagePaths, genImagePaths, imgIndex,
                 isResolved, timeoutArmed, ffmpeg, stderrLines, settled>>
  /\ UNCHANGED <<wsState, subscribed>>

\* generateAudioFile: the TTS response body is parsed.
TtsJson(r, res) ==
  /\ pc[r] = "tts-json"
  /\ CASE res = "ok" ->
            /\ Do(r, <<Pub("generating-audio"), Call("download-audio", 0)>>)
            /\ pc' = [pc EXCEPT ![r] = "audio-fetch"]
            /\ UNCHANGED outcome
       [] res = "no-url" -> Throw(r, << >>, MsgNoAudioUrl)
       [] OTHER -> Throw(r, << >>, MsgBody)
  /\ UNCHANGED <<nSegments, request, response, audioPath, imagePaths, genImagePaths, imgIndex,
                 isResolved, timeoutArmed, ffmpeg, stderrLines, settled>>
  /\ UNCHANGED <<wsState, subscribed>>

\* generateAudioFile: the audio download ends; on success the file is written,
\* generateVideo assigns audioPath and generateAllImages requests the first image.
AudioDownload(r, res) ==
  /\ pc[r] = "audio-fetch"
  /\ CASE res = "ok" ->
            /\ Do(r, <<Write(AudioFile(r)), Pub("generating-audio"),
                       Pub("generating-images"), Call("generate-image", 1)>>)
            /\ audioPath' = [audioPath EXCEPT ![r] = AudioFile(r)]
            /\ genImagePaths' = [genImagePaths EXCEPT ![r] = << >>]
            /\ imgIndex' = [imgIndex EXCEPT ![r] = 0]
            /\ pc' = [pc EXCEPT ![r] = "image-fetch"]
            /\ UNCHANGED outcome
       [] res = "not-ok" ->
            /\ Throw(r, << >>, MsgAudioDownload)
            /\ UNCHANGED <<audioPath, genImagePaths, imgIndex>>
       [] OTHER ->
            /\ Throw(r, << >>, MsgBody)
            /\ UNCHANGED <<audioPath, genImagePaths, imgIndex>>
  /\ UNCHANGED <<nSegments, request, response, imagePaths,
                 isResolved, timeoutArmed, ffmpeg, stderrLines, settled>>
  /\ UNCHANGED <<wsState, subscribed>>

\* generateAllImages: the image service answers for prompt i + 1.
ImageResponse(r, res) ==
  /\ pc[r] = "image-fetch"
  /\ CASE res = "ok" ->
            /\ Do(r, <<Pub("generating-images"), Call("download-image", imgIndex[r] + 1)>>)
            /\ pc' = [pc EXCEPT ![r] = "image-download"]
            /\ UNCHANGED outcome
       [] res = "not-ok" -> Throw(r, << >>, MsgImageFailed)
       [] res = "no-url" -> Throw(r, << >>, MsgNoImageUrl)
       [] OTHER -> Throw(r, << >>, MsgBody)
  /\ UNCHANGED <<nSegments, request, response, audioPath, imagePaths, genImagePaths, imgIndex,
                 isResolved, timeoutArmed, ffmpeg, stderrLines, settled>>
  /\ UNCHANGED <<wsState, subscribed>>

\* Variant: the next image is requested before the downloaded one is stored.
ImageDownloadRequestsFirst(r, res) ==
  /\ pc[r] = "image-download"
  /\ CASE res = "ok" ->
            LET k == imgIndex[r] + 1
                pushed == Append(genImagePaths[r], ImageFile(r, k))
            IN /\ genImagePaths' = [genImagePaths EXCEPT ![r] = pushed]
               /\ imgIndex' = [imgIndex EXCEPT ![r] = k]
               /\ UNCHANGED outcome
               /\ IF k < nSegments[r]
                  THEN /\ Do(r, <<Pub("generating-images"), Call("generate-image", k + 1),
                                  Write(ImageFile(r, k))>>)
                       /\ pc' = [pc EXCEPT ![r] = "image-fetch"]
                       /\ UNCHANGED imagePaths
                  ELSE /\ Do(r, <<Write(ImageFile(r, k)), Pub("generating-images"),
                                  Progress(0, "setup"), Progress(10, "timings"),
                                  Call("ffprobe-audio", 0)>>)
                       /\ pc' = [pc EXCEPT ![r] = "audio-probe"]
                       /\ imagePaths' = [imagePaths EXCEPT ![r] = pushed]
       [] res = "not-ok" ->
            /\ Throw(r, << >>, MsgImageDownload)
            /\ UNCHANGED <<imagePaths, genImagePaths, imgIndex>>
       [] OTHER ->
            /\ Throw(r, << >>, MsgBody)
            /\ UNCHANGED <<imagePaths, genImagePaths, imgIndex>>
  /\ UNCHANGED <<nSegments, request, response, audioPath,
                 isResolved, timeoutArmed, ffmpeg, stderrLines, settled>>
  /\ UNCHANGED <<wsState, subscribed>>

\* downloadImage for prompt i + 1 ends; on success the file is written and
\* pushed, and the loop requests the next image or returns to generateVideo,
\* which assigns imagePaths and enters createVideoWithFFmpeg up to the audio probe.
ImageDownload(r, res) ==
  /\ pc[r] = "image-download"
  /\ CASE res = "ok" ->
            LET k == imgIndex[r] + 1
                pushed == Append(genImagePaths[r], ImageFile(r, k))
            IN /\ genImagePaths' = [genImagePaths EXCEPT ![r] = pushed]
               /\ imgIndex' = [imgIndex EXCEPT ![r] = k]
               /\ UNCHANGED outcome
               /\ IF k < nSegments[r]
                  THEN /\ Do(r, <<Write(ImageFile(r, k)), Pub("generating-images"),
                                  Call("generate-image", k + 1)>>)
                       /\ pc' = [pc EXCEPT ![r] = "image-fetch"]
                       /\ UNCHANGED imagePaths
                  ELSE /\ Do(r, <<Write(ImageFile(r, k)), Pub("generating-images"),
                                  Progress(0, "setup"), Progress(10, "timings"),
                                  Call("ffprobe-audio", 0)>>)
                       /\ pc' = [pc EXCEPT ![r] = "audio-probe"]
                       /\ imagePaths' = [imagePaths EXCEPT ![r] = pushed]
       [] res = "not-ok" ->
            /\ Throw(r, << >>, MsgImageDownload)
            /\ UNCHANGED <<imagePaths, genImagePaths, imgIndex>>
       [] OTHER ->
            /\ Throw(r, << >>, MsgBody)
            /\ UNCHANGED <<imagePaths, genImagePaths, imgIndex>>
  /\ UNCHANGED <<nSegments, request, response, audioPath,
                 isResolved, timeoutArmed, ffmpeg, stderrLines, settled>>
  /\ UNCHANGED <<wsState, subscribed>>

\* createVideoWithFFmpeg: getMediaDuration(audioPath) settles; on success the
\* encoder is spawned and the 120 s timer set.
AudioProbe(r, res) ==
  /\ pc[r] = "audio-probe"
  /\ CASE res = "ok" ->
            /\ Do(r, <<Progress(20, "slideshow"), Progress(30, "starting"),
                       CallWith("spawn-ffmpeg", FfmpegArgs(r))>>)
            /\ pc' = [pc EXCEPT ![r] = "encoding"]
            /\ ffmpeg' = [ffmpeg EXCEPT ![r] = "running"]
            /\ timeoutArmed' = [timeoutArmed EXCEPT ![r] = TRUE]
            /\ isResolved' = [isResolved EXCEPT ![r] = FALSE]
            /\ UNCHANGED outcome
       [] res = "failed" ->
            /\ Throw(r, << >>, MsgProbeFailed)
            /\ UNCHANGED <<ffmpeg, timeoutArmed, isResolved>>
       [] OTHER ->
            /\ Throw(r, << >>, MsgProbeSpawn)
            /\ UNCHANGED <<ffmpeg, timeoutArmed, isResolved>>
  /\ UNCHANGED <<nSegments, request, response, audioPath, imagePaths, genImagePaths, imgIndex,
                 stderrLines, settled>>
  /\ UNCHANGED <<wsState, subscribed>>

\* The encoder process creates (or goes on writing) its output file.
FfmpegWritesOutput(r) ==
  /\ ffmpeg[r] = "running"
  /\ OutputFile(r) \notin files
  /\ files' = files \cup {OutputFile(r)}
  /\ sent' = {}
  /\ UNCHANGED <<envVars, trace>>
  /\ UNCHANGED runVars
  /\ UNCHANGED <<videoSessions, wsState, delivered, subscribed>>

\* ffmpeg.stderr.on('data'): a chunk with a time= field that reads currentTime
\* tenths of a second publishes progress.
\* Chunks still buffered in the pipe arrive after a kill, before 'close'.
OnStderrData(r, hasTime, currentTime) ==
  /\ ffmpeg[r] \in {"running", "killed"}
  /\ stderrLines[r] < MaxStderrLines
  /\ stderrLines' = [stderrLines EXCEPT ![r] = @ + 1]
  /\ Do(r, IF hasTime THEN <<EncodingProgress(currentTime, targetDuration)>> ELSE << >>)
  /\ UNCHANGED <<pc, nSegments, request, response, audioPath, imagePaths, genImagePaths, imgIndex,
                 isResolved, timeoutArmed, ffmpeg, settled, outcome>>
  /\ UNCHANGED <<wsState, subscribed>>

\* Variant: the timer callback only logs; it neither kills nor rejects.
OnTimeoutOnlyLogs(r) ==
  /\ timeoutArmed[r]
  /\ timeoutArmed' = [timeoutArmed EXCEPT ![r] = FALSE]
  /\ sent' = {}
  /\ UNCHANGED <<ffmpeg, isResolved, settled, pc, outcome, files, envVars, trace,
                 videoSessions, delivered>>
  /\ UNCHANGED <<nSegments, request, response, audioPath, imagePaths, genImagePaths, imgIndex,
                 stderrLines>>
  /\ UNCHANGED <<wsState, subscribed>>

\* The setTimeout callback of createVideoWithFFmpeg.
OnTimeout(r) ==
  /\ timeoutArmed[r]
  /\ timeoutArmed' = [timeoutArmed EXCEPT ![r] = FALSE]
  /\ IF ~isResolved[r]
     THEN /\ ffmpeg' = [ffmpeg EXCEPT ![r] = IF @ = "running" THEN "killed" ELSE @]
          /\ isResolved' = [isResolved EXCEPT ![r] = TRUE]
          /\ settled' = [settled EXCEPT ![r] = Append(@, "reject")]
          /\ Throw(r, <<Call("kill-ffmpeg", 0)>> \o UnlinkOutput(r), MsgTimeout)
     ELSE /\ sent' = {}
          /\ UNCHANGED <<ffmpeg, isResolved, settled, pc, outcome, files, envVars, trace,
                         videoSessions, delivered>>
  /\ UNCHANGED <<nSegments, request, response, audioPath, imagePaths, genImagePaths, imgIndex,
                 stderrLines>>
  /\ UNCHANGED <<wsState, subscribed>>

\* Variant: the close handler does not look at isResolved.
OnFfmpegCloseIgnoresResolved(r, code) ==
  /\ ffmpeg[r] \in {"running", "killed", "errored"}
  /\ code = 0 => (ffmpeg[r] = "running" /\ OutputFile(r) \in files)
  /\ ffmpeg' = [ffmpeg EXCEPT ![r] = "closed"]
  /\ IF FALSE
     THEN /\ sent' = {}
          /\ UNCHANGED <<isResolved, timeoutArmed, settled, pc, outcome, files, envVars, trace,
                         videoSessions, delivered>>
     ELSE /\ timeoutArmed' = [timeoutArmed EXCEPT ![r] = FALSE]
          /\ isResolved' = [isResolved EXCEPT ![r] = TRUE]
          /\ IF code = 0
             THEN /\ Do(r, <<Progress(95, "finalizing"), Call("ffprobe-output", 0)>>)
                  /\ pc' = [pc EXCEPT ![r] = "output-probe"]
                  /\ UNCHANGED <<settled, outcome>>
             ELSE /\ settled' = [settled EXCEPT ![r] = Append(@, "reject")]
                  /\ Throw(r, UnlinkOutput(r), MsgFfmpegFailed)
  /\ UNCHANGED <<nSegments, request, response, audioPath, imagePaths, genImagePaths, imgIndex,
                 stderrLines>>
  /\ UNCHANGED <<wsState, subscribed>>

\* ffmpeg.on('close'): exit code 0 needs a live encoder that wrote its output;
\* a killed encoder closes with a null code.
OnFfmpegClose(r, code) ==
  /\ ffmpeg[r] \in {"running", "killed", "errored"}
  /\ code = 0 => (ffmpeg[r] = "running" /\ OutputFile(r) \in files)
  /\ ffmpeg' = [ffmpeg EXCEPT ![r] = "closed"]
  /\ IF isResolved[r]
     THEN /\ sent' = {}
          /\ UNCHANGED <<isResolved, timeoutArmed, settled, pc, outcome, files, envVars, trace,
                         videoSessions, delivered>>
     ELSE /\ timeoutArmed' = [timeoutArmed EXCEPT ![r] = FALSE]
          /\ isResolved' = [isResolved EXCEPT ![r] = TRUE]
          /\ IF code = 0
             THEN /\ Do(r, <<Progress(95, "finalizing"), Call("ffprobe-output", 0)>>)
                  /\ pc' = [pc EXCEPT ![r] = "output-probe"]
                  /\ UNCHANGED <<settled, outcome>>
             ELSE /\ settled' = [settled EXCEPT ![r] = Append(@, "reject")]
                  /\ Throw(r, UnlinkOutput(r), MsgFfmpegFailed)
  /\ UNCHANGED <<nSegments, request, response, audioPath, imagePaths, genImagePaths, imgIndex,
                 stderrLines>>
  /\ UNCHANGED <<wsState, subscribed>>

\* ffmpeg.on('error'): the process could not be spawned or could not be killed.
OnFfmpegError(r) ==
  /\ ffmpeg[r] \in {"running", "killed"}
  /\ ffmpeg[r] = "running" => (OutputFile(r) \notin files /\ stderrLines[r] = 0)
  /\ ffmpeg' = [ffmpeg EXCEPT ![r] = "errored"]
  /\ IF isResolved[r]
     THEN /\ sent' = {}
          /\ UNCHANGED <<isResolved, timeoutArmed, settled, pc, outcome, files, envVars, trace,
                         videoSessions, delivered>>
     ELSE /\ timeoutArmed' = [timeoutArmed EXCEPT ![r] = FALSE]
          /\ isResolved' = [isResolved EXCEPT ![r] = TRUE]
          /\ settled' = [settled EXCEPT ![r] = Append(@, "reject")]
          /\ Throw(r, UnlinkOutput(r), MsgFfmpegSpawn)
  /\ UNCHANGED <<nSegments, request, response, audioPath, imagePaths, genImagePaths, imgIndex,
                 stderrLines>>
  /\ UNCHANGED <<wsState, subscribed>>

\* The close handler's getMediaDuration(outputPath) settles.  On success the
\* compose promise resolves, generateVideo publishes 'completed', runs its
\* finally block and returns, and the route moves the video and broadcasts the
\* completion; a failing renameSync lands in the route's catch.
OutputProbe(r, res, renameOk) ==
  /\ pc[r] = "output-probe"
  /\ pc' = [pc EXCEPT ![r] = "done"]
  /\ IF res = "ok"
     THEN /\ settled' = [settled EXCEPT ![r] = Append(@, "resolve")]
          /\ IF renameOk
             THEN /\ Do(r, <<Progress(100, "done"), Pub("completed")>> \o CleanupOps(r)
                           \o <<Rename(PublicFile(r)),
                                PubData("completed", CompletionData(r))>>)
                  /\ outcome' = [outcome EXCEPT ![r] = "succeeded"]
             ELSE /\ Do(r, <<Progress(100, "done"), Pub("completed")>> \o CleanupOps(r)
                           \o <<Call("rename-failed", 0),
                                PubData("error", ErrorData(MsgRename))>>)
                  /\ outcome' = [outcome EXCEPT ![r] = "failed"]
     ELSE /\ renameOk
          /\ settled' = [settled EXCEPT ![r] = Append(@, "reject")]
          /\ Do(r, <<Caught(MsgVideoDuration(MsgProbeFailed)), Pub("error")>> \o CleanupOps(r)
                   \o <<PubData("error", ErrorData(MsgVideoDuration(MsgProbeFailed)))>>)
          /\ outcome' = [outcome EXCEPT ![r] = "failed"]
  /\ UNCHANGED <<nSegments, request, response, audioPath, imagePaths, genImagePaths, imgIndex,
                 isResolved, timeoutArmed, ffmpeg, stderrLines>>
  /\ UNCHANGED <<wsState, subscribed>>

\* ------------------------------------------------------------------- init
InitExceptEnv ==
  /\ videoSessions = << >>
  /\ wsState = [h \in Handles |-> "NONE"]
  /\ sent = {}
  /\ delivered = [h \in Handles |-> {}]
  /\ subscribed = [h \in Handles |-> {}]
  /\ pc = [r \in Runs |-> "idle"]
  /\ request = [r \in Runs |-> NoRequest]
  /\ nSegments = [r \in Runs |-> 0]
  /\ response = [r \in Runs |-> "none"]
  /\ audioPath = [r \in Runs |-> NoPath]
  /\ imagePaths = [r \in Runs |-> << >>]
  /\ genImagePaths = [r \in Runs |-> << >>]
  /\ imgIndex = [r \in Runs |-> 0]
  /\ isResolved = [r \in Runs |-> FALSE]
  /\ timeoutArmed = [r \in Runs |-> FALSE]
  /\ ffmpeg = [r \in Runs |-> "none"]
  /\ stderrLines = [r \in Runs |-> 0]
  /\ settled = [r \in Runs |-> << >>]
  /\ outcome = [r \in Runs |-> "none"]
  /\ files = {}
  /\ trace = [r \in Runs |-> << >>]

\* Every segment of a submission has the eleven-word voiceover, and ffprobe
\* reports 30 s for the audio and for the encoded output.
TypicalMedia ==
  /\ voiceovers = [i \in 1..MaxPrompts |-> MediumText]
  /\ ffprobe = [audio |-> 300, output |-> 300]

\* The runs read different instants whenever they name a file.
InitExceptFaults == InitExceptEnv /\ clock = [r \in Runs |-> r] /\ TypicalMedia

\* Every unlinkSync succeeds.
Init == InitExceptFaults /\ unlinkFails = {}

\* The temporary files of run 1; any of them may be undeletable.
TempPaths == {AudioFile(1), OutputFile(1)} \cup {ImageFile(1, k) : k \in 1..MaxSegments}
InitFaults == InitExceptFaults /\ unlinkFails \in SUBSET TempPaths

\* One submission; every outcome of every external call.
Next ==
  \/ \E h \in Handles : OnConnection(h)
  \/ \E h \in Handles, m \in Frames : OnMessage(h, m)
  \/ \E h \in Handles : BeginClose(h)
  \/ \E h \in Handles : OnClose(h)
  \/ \E n \in (0..MaxSegments) \cup {MaxPrompts + 1}, textsOk \in BOOLEAN :
       Submit(1, n, textsOk)
  \/ StartRun(1)
  \/ \E res \in {"ok", "not-ok"} : TtsResponse(1, res)
  \/ \E res \in {"ok", "no-url", "bad-json"} : TtsJson(1, res)
  \/ \E res \in {"ok", "not-ok", "body-error"} : AudioDownload(1, res)
  \/ \E res \in {"ok", "not-ok", "no-url", "bad-json"} : ImageResponse(1, res)
  \/ \E res \in {"ok", "not-ok", "body-error"} : ImageDownload(1, res)
  \/ \E res \in {"ok", "failed", "spawn-error"} : AudioProbe(1, res)
  \/ FfmpegWritesOutput(1)
  \/ \E hasTime \in BOOLEAN : OnStderrData(1, hasTime, TypicalTime)
  \/ OnTimeout(1)
  \/ \E code \in {0, 1} : OnFfmpegClose(1, code)
  \/ OnFfmpegError(1)
  \/ \E res \in {"ok", "failed"}, renameOk \in BOOLEAN : OutputProbe(1, res, renameOk)

Spec == Init /\ [][Next]_vars

\* Two concurrent submissions of one segment each.  Narration synthesis, the
\* encoder and the final move each succeed or fail; the other external calls
\* succeed, the encoder exits before its timeout, and handles close at once.
NextConcurrent ==
  \/ \E h \in Handles : OnConnection(h)
  \/ \E h \in Handles, m \in [type : {"subscribe"}, sessionId : SessionIds] : OnMessage(h, m)
  \/ \E h \in Handles : OnClose(h)
  \/ \E r \in Runs : Submit(r, 1, TRUE)
  \/ \E r \in Runs : StartRun(r)
  \/ \E r \in Runs, res \in {"ok", "not-ok"} : TtsResponse(r, res)
  \/ \E r \in Runs : TtsJson(r, "ok")
  \/ \E r \in Runs : AudioDownload(r, "ok")
  \/ \E r \in Runs : ImageResponse(r, "ok")
  \/ \E r \in Runs : ImageDownload(r, "ok")
  \/ \E r \in Runs : AudioProbe(r, "ok")
  \/ \E r \in Runs : FfmpegWritesOutput(r)
  \/ \E r \in Runs, code \in {0, 1} : OnFfmpegClose(r, code)
  \/ \E r \in Runs, renameOk \in BOOLEAN : OutputProbe(r, "ok", renameOk)

SpecConcurrent == Init /\ [][NextConcurrent]_vars

\* One accepted submission watched by at most one client.  Every HTTP call and
\* every media probe of the run eventually succeeds or fails, and the 120 s
\* timer, while pending, eventually fires; nothing is assumed of the encoder
\* process, which may write, report progress, exit, fail, or do none of these.
HttpOrProbeSettles(r) ==
  \/ StartRun(r)
  \/ \E res \in {"ok", "not-ok"} : TtsResponse(r, res)
  \/ \E res \in {"ok", "no-url", "bad-json"} : TtsJson(r, res)
  \/ \E res \in {"ok", "not-ok", "body-error"} : AudioDownload(r, res)
  \/ \E res \in {"ok", "not-ok", "no-url", "bad-json"} : ImageResponse(r, res)
  \/ \E res \in {"ok", "not-ok", "body-error"} : ImageDownload(r, res)
  \/ \E res \in {"ok", "failed", "spawn-error"} : AudioProbe(r, res)
  \/ \E res \in {"ok", "failed"}, renameOk \in BOOLEAN : OutputProbe(r, res, renameOk)

NextLive ==
  \/ OnConnection(1)
  \/ OnMessage(1, [type |-> "subscribe", sessionId |-> 1])
  \/ OnClose(1)
  \/ \E n \in 1..MaxSegments : Submit(1, n, TRUE)
  \/ HttpOrProbeSettles(1)
  \/ FfmpegWritesOutput(1)
  \/ \E hasTime \in BOOLEAN : OnStderrData(1, hasTime, TypicalTime)
  \/ OnTimeout(1)
  \/ \E code \in {0, 1} : OnFfmpegClose(1, code)
  \/ OnFfmpegError(1)

SpecLive ==
  /\ Init
  /\ [][NextLive]_vars
  /\ WF_vars(HttpOrProbeSettles(1))
  /\ WF_vars(OnTimeout(1))

\* One accepted submission on a filesystem where some unlinkSync calls throw.
SpecFaults == InitFaults /\ [][NextLive]_vars

\* Two concurrent submissions whose Date.now() readings may coincide, watched
\* by at most one client.
Instants == {1, 2}
InitSameInstant ==
  InitExceptEnv /\ clock \in [Runs -> Instants] /\ unlinkFails = {} /\ TypicalMedia

NextSameInstant ==
  \/ OnConnection(1)
  \/ \E s \in SessionIds : OnMessage(1, [type |-> "subscribe", sessionId |-> s])
  \/ OnClose(1)
  \/ \E r \in Runs : Submit(r, 1, TRUE)
  \/ \E r \in Runs : StartRun(r)
  \/ \E r \in Runs, res \in {"ok", "not-ok"} : TtsResponse(r, res)
  \/ \E r \in Runs : TtsJson(r, "ok")
  \/ \E r \in Runs : AudioDownload(r, "ok")
  \/ \E r \in Runs : ImageResponse(r, "ok")
  \/ \E r \in Runs : ImageDownload(r, "ok")
  \/ \E r \in Runs : AudioProbe(r, "ok")
  \/ \E r \in Runs : FfmpegWritesOutput(r)
  \/ \E r \in Runs, code \in {0, 1} : OnFfmpegClose(r, code)
  \/ \E r \in Runs, renameOk \in BOOLEAN : OutputProbe(r, "ok", renameOk)

SpecSameInstant == InitSameInstant /\ [][NextSameInstant]_vars

\* One submission of 1 to 6 segments with any of the voiceover texts, up to
\* the computation of its timing plan.
InitAllocator ==
  /\ InitExceptEnv
  /\ clock = [r \in Runs |-> r]
  /\ unlinkFails = {}
  /\ ffprobe = [audio |-> 300, output |-> 300]
  /\ voiceovers \in [1..MaxPrompts -> Texts]

NextAllocator ==
  \/ \E n \in 1..MaxPrompts : Submit(1, n, TRUE)
  \/ StartRun(1)

SpecAllocator == InitAllocator /\ [][NextAllocator]_vars

\* One accepted submission of one to MaxPrompts segments whose first text and
\* whose other texts are any of the voiceover texts, with a synthesized audio of 10, 25.5,
\* 30 or 45 s and an encoded output that ffprobe measures at 10, 28.7 or 30 s.
MediaTexts ==
  {[i \in 1..MaxPrompts |-> IF i = 1 THEN a ELSE b] : a, b \in Texts}

InitMedia ==
  /\ InitExceptEnv
  /\ clock = [r \in Runs |-> r]
  /\ unlinkFails = {}
  /\ voiceovers \in MediaTexts
  /\ ffprobe \in [audio : {100, 255, 300, 450}, output : {100, 287, 300}]

NextMedia ==
  \/ \E n \in 1..MaxPrompts : Submit(1, n, TRUE)
  \/ HttpOrProbeSettles(1)
  \/ FfmpegWritesOutput(1)
  \/ OnTimeout(1)
  \/ \E code \in {0, 1} : OnFfmpegClose(1, code)
  \/ OnFfmpegError(1)

SpecMedia == InitMedia /\ [][NextMedia]_vars

\* One accepted submission whose audio lasts 10, 30 or 45 s and whose encoder
\* reports any of the elapsed times.
InitProgress ==
  /\ InitExceptEnv
  /\ clock = [r \in Runs |-> r]
  /\ unlinkFails = {}
  /\ voiceovers = [i \in 1..MaxPrompts |-> MediumText]
  /\ ffprobe \in [audio : {100, 300, 450}, output : {300}]

NextProgress ==
  \/ \E n \in 1..MaxSegments : Submit(1, n, TRUE)
  \/ HttpOrProbeSettles(1)
  \/ FfmpegWritesOutput(1)
  \/ \E hasTime \in BOOLEAN, currentTime \in ElapsedTimes : OnStderrData(1, hasTime, currentTime)
  \/ OnTimeout(1)
  \/ \E code \in {0, 1} : OnFfmpegClose(1, code)
  \/ OnFfmpegError(1)

SpecProgress == InitProgress /\ [][NextProgress]_vars

\* ------------------------------------------------------------- properties
\* Position of a step in the coordinator's state machine.
StepRank(step) ==
  CASE step = "initializing" -> 1
    [] step = "calculating-timings" -> 2
    [] step = "generating-audio" -> 3
    [] step = "generating-images" -> 4
    [] step = "creating-video" -> 5
    [] step = "finalizing" -> 6
    [] step = "completed" -> 7
    [] step = "error" -> 7

IsPub(e) == e.op = "publish"
IsTerminalPub(e) == e.op = "publish" /\ e.step \in TerminalSteps
TerminalMsgs(h, s) == {m \in delivered[h] : m.sessionId = s /\ m.type \in TerminalSteps}

\* The handle was registered under s before the run of s published its first
\* event (it was sent that event) and has stayed connected since.
EarlySubscriber(h, s) ==
  /\ wsState[h] = "OPEN"
  /\ \E m \in delivered[h] : m.sessionId = s /\ m.step = "initializing"

\* The files on disk whose name carries run r.
RunFiles(r) == {f \in files : f.stamp = r}

\* C1: once a run has published 'completed' or 'error', it publishes no further
\* event for its session.
TerminalEventIsLast ==
  \A r \in Runs : \A i \in DOMAIN trace[r] :
    IsTerminalPub(trace[r][i]) =>
      \A j \in DOMAIN trace[r] : j > i => ~IsPub(trace[r][j])

\* C2: every terminal message delivered to a client that subscribed before the
\* run's first event and stayed connected carries its payload (completion data
\* on 'completed', the categorized error on 'error').
TerminalMessagesCarryPayload ==
  \A h \in Handles : \A m \in delivered[h] :
    (m.type \in TerminalSteps /\ EarlySubscriber(h, m.sessionId)) =>
      /\ m.type = "completed" => m.data.kind = "completed"
      /\ m.type = "error" => m.data.kind = "error"

\* C3: a message for session A is sent only to handles registered under A when
\* the publishing handler ran; a handle that subscribed only to B never gets it.
DeliveredOnlyToRegistered ==
  [][\A d \in sent' :
       /\ d.msg.sessionId \in DOMAIN videoSessions
       /\ d.handle \in videoSessions[d.msg.sessionId]
       /\ d.msg.sessionId \in subscribed[d.handle]]_vars

\* C3 witness: a message of session 1 was sent while another handle is
\* registered under session 2 only, whose run has published as well.
WitnessOtherSessionSilent ==
  \E d \in sent : \E h \in Handles :
    /\ d.msg.sessionId = 1
    /\ h # d.handle
    /\ subscribed[h] = {2}
    /\ 2 \in DOMAIN videoSessions /\ h \in videoSessions[2]
    /\ wsState[h] = "OPEN"
    /\ trace[2] # << >>

\* C4: after a run that ended in failure none of its temporary files (audio,
\* images, encoder output) is left on disk.
NoTempFilesAfterFailure ==
  \A r \in Runs :
    (pc[r] = "done" /\ outcome[r] = "failed") => {f \in RunFiles(r) : f.dir = "/tmp"} = {}

CompletedOnlyAfterMove ==
  \A r \in Runs : \A i \in DOMAIN trace[r] :
    (IsPub(trace[r][i]) /\ trace[r][i].step = "completed") =>
      \E j \in 1..(i - 1) : trace[r][j].op = "rename"

\* C7: within one run no event of an earlier state is published after an event
\* of a later state.
ForwardOrder ==
  \A r \in Runs : \A i, j \in DOMAIN trace[r] :
    (i < j /\ IsPub(trace[r][i]) /\ IsPub(trace[r][j])) =>
      StepRank(trace[r][i].step) <= StepRank(trace[r][j].step)

\* C8: with two concurrent runs, a client that subscribed only to its own
\* session before the run's first event and stays connected receives no event
\* of the other run, never more than one terminal event, and exactly one once
\* its run has ended.
OneTerminalPerClient ==
  \A r \in Runs : \A h \in Handles :
    (EarlySubscriber(h, r) /\ subscribed[h] = {r}) =>
      /\ \A m \in delivered[h] : m.sessionId = r
      /\ \A d \in sent : d.handle = h => d.msg.sessionId = r
      /\ Cardinality(TerminalMsgs(h, r)) <= 1
      /\ pc[r] = "done" => Cardinality(TerminalMsgs(h, r)) = 1

\* C8 witness: both runs have ended, one in success and one in failure, each
\* watched from before its first event by its own client.
WitnessTwoRunsTwoClients ==
  /\ pc[1] = "done" /\ pc[2] = "done"
  /\ outcome[1] # outcome[2]
  /\ \E h1, h2 \in Handles :
       /\ h1 # h2
       /\ EarlySubscriber(h1, 1) /\ subscribed[h1] = {1}
       /\ EarlySubscriber(h2, 2) /\ subscribed[h2] = {2}

\* A handler of run r published a terminal event in this step.
PublishesTerminal(r) ==
  \E i \in (Len(trace[r]) + 1)..Len(trace'[r]) : IsTerminalPub(trace'[r][i])

\* C9: a terminal event published for a session that has a record is sent to
\* each open handle of the session and to no other, and the record is then
\* gone although those handles stay connected; of all terminal events
\* published for a session, at most one is delivered.
TerminalDeliveredOnce ==
  /\ [](\A s \in SessionIds :
          Cardinality({m.timestamp : m \in UNION {TerminalMsgs(h, s) : h \in Handles}}) <= 1)
  /\ [][\A r \in Runs :
          (PublishesTerminal(r) /\ r \in DOMAIN videoSessions) =>
            /\ r \notin DOMAIN videoSessions'
            /\ \A h \in Handles :
                 Cardinality({d \in sent' : d.handle = h /\ d.msg.type \in TerminalSteps}) =
                   (IF h \in videoSessions[r] /\ wsState[h] = "OPEN" THEN 1 ELSE 0)]_vars

\* C9 witness: the run published two terminal events, an open handle got one
\* of them, and the session record is gone while the handle is still connected.
WitnessRecordGoneHandleOpen ==
  \E h \in Handles :
    /\ wsState[h] = "OPEN"
    /\ TerminalMsgs(h, 1) # {}
    /\ 1 \notin DOMAIN videoSessions
    /\ Cardinality({i \in DOMAIN trace[1] : IsTerminalPub(trace[1][i])}) = 2

\* C10: after a terminal event has been published for a session, no subscribe
\* message creates a record for it or registers a handle under it.
NoSubscriptionAfterTerminal ==
  \A r \in Runs :
    (\E i \in DOMAIN trace[r] : IsTerminalPub(trace[r][i])) => r \notin DOMAIN videoSessions

\* Index of the first entry of run r's trace that equals e (0 when absent).
FirstIndex(r, e) ==
  IF \E i \in DOMAIN trace[r] : trace[r][i] = e
  THEN CHOOSE i \in DOMAIN trace[r] :
         trace[r][i] = e /\ \A j \in 1..(i - 1) : trace[r][j] # e
  ELSE 0

TimedOut(r) == FirstIndex(r, Call("kill-ffmpeg", 0)) # 0

ErrorEvents(r) ==
  {i \in DOMAIN trace[r] :
     IsPub(trace[r][i]) /\ trace[r][i].step = "error" /\ trace[r][i].data.kind = "error"}

Published(r, step) == \E i \in DOMAIN trace[r] : IsPub(trace[r][i]) /\ trace[r][i].step = step
Called(r, what) == \E i \in DOMAIN trace[r] : trace[r][i].op = "call" /\ trace[r][i].step = what

\* C12: when a run fails after its encoder was started and before the pipeline
\* completed (timeout, non-zero exit, spawn error, unreadable output), the
\* error event built for it carries the code VIDEO_PROCESSING_ERROR.
EncodingFailureIsVideoProcessingError ==
  \A r \in Runs :
    (Called(r, "spawn-ffmpeg") /\ ~Published(r, "completed")) =>
      \A i \in ErrorEvents(r) : trace[r][i].data.code = "VIDEO_PROCESSING_ERROR"

\* C13: a run that fails in the generating-audio state builds an error event
\* with code TTS_SERVICE_ERROR, and one that fails in the generating-images
\* state builds one with code IMAGE_SERVICE_ERROR, whatever failed in that
\* state (non-success response, response without URL, failed download).
SynthesisFailureIsCategorized ==
  \A r \in Runs : \A i \in ErrorEvents(r) :
    /\ (Published(r, "generating-audio") /\ ~Published(r, "generating-images")) =>
         trace[r][i].data.code = "TTS_SERVICE_ERROR"
    /\ (Published(r, "generating-images") /\ ~Published(r, "creating-video")) =>
         trace[r][i].data.code = "IMAGE_SERVICE_ERROR"

\* The operations run r performed in this step.
NewOps(r) == SubSeq(trace'[r], Len(trace[r]) + 1, Len(trace'[r]))

\* The step of the last event run r has published so far ("" when none).
LastPublished(r) ==
  LET P == {i \in DOMAIN trace[r] : IsPub(trace[r][i])}
  IN IF P = {} THEN ""
     ELSE trace[r][CHOOSE i \in P : \A j \in P : j <= i].step

SynthesisOrEncoderCalls == {"generate-image", "download-image", "ffprobe-audio", "spawn-ffmpeg"}

\* C14: when the narration service answers with a non-success status, the run
\* goes from generating-audio directly to error: the next event is 'error', and
\* the run never requests an image, never starts the encoder and never
\* publishes 'generating-images' or 'creating-video'.
TtsFailureGoesStraightToError ==
  /\ [][\A r \in Runs :
          (pc[r] = "tts-fetch" /\ pc'[r] = "done") =>
            /\ LastPublished(r) = "generating-audio"
            /\ SelectSeq(NewOps(r), IsPub) # << >>
            /\ Head(SelectSeq(NewOps(r), IsPub)) = Pub("error")
            /\ outcome'[r] = "failed"]_vars
  /\ [](\A r \in Runs :
          (\E i \in ErrorEvents(r) : trace[r][i].data.code = "TTS_SERVICE_ERROR") =>
            /\ pc[r] = "done"
            /\ \A what \in SynthesisOrEncoderCalls : ~Called(r, what)
            /\ ~Published(r, "generating-images") /\ ~Published(r, "creating-video")
            /\ ffmpeg[r] = "none")

\* C14 witness: a run ended on the narration service's non-success answer.
WitnessTtsNonSuccess ==
  \E r \in Runs :
    /\ pc[r] = "done" /\ outcome[r] = "failed"
    /\ Called(r, "generate-tts") /\ ~Called(r, "download-audio")
    /\ \E i \in ErrorEvents(r) : trace[r][i].data.code = "TTS_SERVICE_ERROR"
    /\ nSegments[r] > 1

\* C15: every run that has started eventually publishes 'completed' or 'error'
\* and runs its cleanup phase, provided its HTTP calls and media probes settle;
\* the encoder need not exit by itself.
RunTerminates ==
  \A r \in Runs :
    (pc[r] = "importing") ~>
      (/\ pc[r] = "done"
       /\ Published(r, "completed") \/ Published(r, "error")
       /\ Published(r, "finalizing"))

\* C15 witness: a run whose encoder never exited has ended and cleaned up.
WitnessEndedWithoutEncoderExit ==
  \E r \in Runs :
    /\ pc[r] = "done"
    /\ Called(r, "spawn-ffmpeg")
    /\ ffmpeg[r] = "killed"
    /\ Published(r, "error") /\ Published(r, "finalizing")
    /\ audioPath[r] \notin files

\* C16: an accepted submission is answered with its session identifier before
\* the run publishes anything or makes any external call; the answer, once
\* given, never changes, and a run that failed has left it as it was and built
\* an error event for the progress channel instead.
ResponseBeforeRun ==
  /\ [](\A r \in Runs :
          /\ (trace[r] # << >> \/ pc[r] \notin {"idle", "rejected"}) =>
               response[r] = "sessionId"
          /\ outcome[r] = "failed" =>
               (response[r] = "sessionId" /\ ErrorEvents(r) # {}))
  /\ [][\A r \in Runs :
          /\ response[r] # "none" => response'[r] = response[r]
          /\ response'[r] # response[r] => (trace[r] = << >> /\ trace'[r] = << >>)]_vars

\* C16 witness: a run failed after external calls; its answer is the session
\* identifier.
WitnessFailedAfterResponse ==
  \E r \in Runs :
    /\ outcome[r] = "failed"
    /\ response[r] = "sessionId"
    /\ Called(r, "generate-image")
    /\ ErrorEvents(r) # {}

\* C17: a submission with no segment, with more than 6 segments or with an
\* empty visual or voiceover text is answered INVALID_REQUEST and nothing else
\* happens for it: no session identifier, no run, no external call, no event,
\* no file.
InvalidRequestRejected ==
  \A r \in Runs :
    (pc[r] # "idle" /\ (request[r].n = 0 \/ request[r].n > 6 \/ ~request[r].textsOk)) =>
      /\ pc[r] = "rejected"
      /\ response[r] = "INVALID_REQUEST"
      /\ trace[r] = << >>
      /\ outcome[r] = "none"
      /\ RunFiles(r) = {}
      /\ \A h \in Handles : \A m \in delivered[h] : m.sessionId # r

\* C17 witness: a submission of more than 6 well-formed segments was rejected
\* while a client is connected and subscribed.
WitnessTooManySegments ==
  \E r \in Runs :
    /\ pc[r] = "rejected"
    /\ request[r].n > 6 /\ request[r].textsOk
    /\ \E h \in Handles : wsState[h] = "OPEN" /\ r \in subscribed[h]

Range(seq) == {seq[i] : i \in DOMAIN seq}

\* The errors generateVideo's catch block caught in run r.
CaughtMessages(r) == {trace[r][i].data.message : i \in {j \in DOMAIN trace[r] : trace[r][j].op = "catch"}}

\* C20: cleanup is best-effort and never masks the outcome.  When the run has
\* ended, every file named by imagePaths or audioPath whose unlink does not
\* throw is gone, whichever unlinks threw; a run whose pipeline resolved and
\* whose video was moved has succeeded and built its completion event; and a
\* run whose pipeline threw has caught exactly one error and built its error
\* event from that error.
CleanupNeverMasksOutcome ==
  \A r \in Runs :
    pc[r] = "done" =>
      /\ \A f \in (Range(imagePaths[r]) \cup {audioPath[r]}) \cap files : f \in unlinkFails
      /\ (settled[r] = <<"resolve">> /\ ~Called(r, "rename-failed")) =>
           /\ outcome[r] = "succeeded"
           /\ \E i \in DOMAIN trace[r] : trace[r][i] = PubData("completed", CompletionData(r))
           /\ CaughtMessages(r) = {}
      /\ CaughtMessages(r) # {} =>
           /\ outcome[r] = "failed"
           /\ Cardinality({i \in DOMAIN trace[r] : trace[r][i].op = "catch"}) = 1
           /\ Cardinality(ErrorEvents(r)) = 1
           /\ \A i \in ErrorEvents(r) : \A m \in CaughtMessages(r) :
                trace[r][i].data = ErrorData(m)

\* C20 witness: a run failed on a non-zero encoder exit; deleting its first
\* image threw, and the second image and the audio file were deleted after that.
WitnessCleanupGoesOn ==
  \E r \in Runs :
    /\ pc[r] = "done" /\ outcome[r] = "failed"
    /\ MsgFfmpegFailed \in CaughtMessages(r)
    /\ \E i, j, k \in DOMAIN trace[r] :
         /\ i < j /\ j < k
         /\ trace[r][i] = UnlinkFailed(ImageFile(r, 1))
         /\ trace[r][j] = Unlink(ImageFile(r, 2))
         /\ trace[r][k] = Unlink(AudioFile(r))
    /\ ImageFile(r, 1) \in files

\* Positions in run r's trace of the calls named what.
CallsOf(r, what) == {i \in DOMAIN trace[r] : trace[r][i].op = "call" /\ trace[r][i].step = what}

\* C18: the image requests of a run are issued in segment order, one at a
\* time: the j-th request is the one for segment j, it comes after the audio
\* file was written and after the image of segment j - 1 was written, and
\* every image request but the last issued has been answered and its image
\* stored, so at most one is in flight.
ImagesSequentialAfterAudio ==
  \A r \in Runs : \A i \in CallsOf(r, "generate-image") :
    LET k == trace[r][i].path.idx
    IN /\ k = Cardinality({j \in CallsOf(r, "generate-image") : j <= i})
       /\ k <= nSegments[r]
       /\ \E j \in 1..(i - 1) : trace[r][j] = Write(AudioFile(r))
       /\ k > 1 => \E j \in 1..(i - 1) : trace[r][j] = Write(ImageFile(r, k - 1))
       /\ (\E j \in CallsOf(r, "generate-image") : j > i) =>
            \E j \in DOMAIN trace[r] : trace[r][j] = Write(ImageFile(r, k))
       /\ (pc[r] \in {"image-fetch", "image-download"}) =
            (\E j \in CallsOf(r, "generate-image") :
               ~\E w \in DOMAIN trace[r] : w > j /\ trace[r][w].op \in {"write", "catch"})

\* C18 witness: the image of the last of several segments has been requested.
WitnessSecondImageRequested ==
  \E r \in Runs :
    /\ nSegments[r] > 1
    /\ pc[r] = "image-fetch"
    /\ Called(r, "generate-image")
    /\ imgIndex[r] = nSegments[r] - 1

SynthesisAndEncodingCalls == {"generate-tts", "download-audio", "generate-image", "download-image", "spawn-ffmpeg"}

\* C19: a run requests narration at most once, each segment's image at most
\* once and starts the encoder at most once, and makes no synthesis or
\* encoding call after it has caught an error or published a terminal event.
NoRetries ==
  \A r \in Runs :
    /\ Cardinality(CallsOf(r, "generate-tts")) <= 1
    /\ Cardinality(CallsOf(r, "download-audio")) <= 1
    /\ Cardinality(CallsOf(r, "spawn-ffmpeg")) <= 1
    /\ \A i, j \in CallsOf(r, "generate-image") :
         trace[r][i].path.idx = trace[r][j].path.idx => i = j
    /\ \A i, j \in CallsOf(r, "download-image") :
         trace[r][i].path.idx = trace[r][j].path.idx => i = j
    /\ \A i \in DOMAIN trace[r] :
         (trace[r][i].op = "catch" \/ IsTerminalPub(trace[r][i])) =>
           \A j \in DOMAIN trace[r] :
             (j > i /\ trace[r][j].op = "call") => trace[r][j].step \notin SynthesisAndEncodingCalls
    /\ (outcome[r] = "failed" /\ pc[r] = "done") =>
         ~ENABLED (HttpOrProbeSettles(r) \/ FfmpegWritesOutput(r))

\* C19 witness: a run failed on its second image after the first succeeded.
WitnessFailedOnSecondImage ==
  \E r \in Runs :
    /\ pc[r] = "done" /\ outcome[r] = "failed"
    /\ Cardinality(CallsOf(r, "generate-image")) = 2
    /\ ~Called(r, "spawn-ffmpeg")
    /\ MsgImageFailed \in CaughtMessages(r)

\* The temporary paths run r has written or handed to its encoder so far.
PathsUsed(r) ==
  {trace[r][i].path : i \in {j \in DOMAIN trace[r] : trace[r][j].op = "write"}}
  \cup (IF Called(r, "spawn-ffmpeg") THEN {OutputFile(r)} ELSE {})

\* C21: two runs never use the same temporary path, also when they read the
\* same clock instant, and therefore a run that has stored its audio file and
\* has not yet cleaned up still finds it on disk.
ConcurrentRunsUseDisjointPaths ==
  /\ \A r1, r2 \in Runs : r1 # r2 => PathsUsed(r1) \cap PathsUsed(r2) = {}
  /\ \A r \in Runs : (audioPath[r] # NoPath /\ pc[r] # "done") => audioPath[r] \in files

\* C22: when a handle disconnects it leaves every session it was registered
\* to; a session left without handles loses its record, terminal event or not,
\* and every other session keeps its record with its remaining handles.
CloseUnregistersEverywhere ==
  [][\A h \in Handles :
       (wsState[h] # "CLOSED" /\ wsState'[h] = "CLOSED") =>
         /\ DOMAIN videoSessions' \subseteq DOMAIN videoSessions
         /\ \A s \in DOMAIN videoSessions :
              IF videoSessions[s] \ {h} = {}
              THEN s \notin DOMAIN videoSessions'
              ELSE s \in DOMAIN videoSessions' /\ videoSessions'[s] = videoSessions[s] \ {h}]_vars

\* C22 witness: a handle registered to both sessions has disconnected; the
\* session it was alone in, whose run has published no terminal event, has no
\* record any more, and the other session keeps its record and other handle.
WitnessCloseSplitsSessions ==
  \E h1, h2 \in Handles :
    /\ h1 # h2
    /\ wsState[h1] = "CLOSED" /\ subscribed[h1] = {1, 2}
    /\ wsState[h2] = "OPEN" /\ subscribed[h2] = {2}
    /\ trace[1] # << >> /\ ~\E i \in DOMAIN trace[1] : IsTerminalPub(trace[1][i])
    /\ 1 \notin DOMAIN videoSessions
    /\ 2 \in DOMAIN videoSessions /\ videoSessions[2] = {h2}

\* The events of ops that reach the registry record: those up to and
\* including the first terminal one.
RECURSIVE PublishedToRecord(_)
PublishedToRecord(ops) ==
  IF ops = << >> THEN 0
  ELSE IF IsTerminalPub(Head(ops)) THEN 1
  ELSE (IF IsPub(Head(ops)) THEN 1 ELSE 0) + PublishedToRecord(Tail(ops))

\* C23: when a run publishes to a session one of whose registered handles is
\* not open, nothing is sent to that handle, every open handle of the session
\* is sent every event, and the run goes on: its first step still ends with
\* the narration request under way.
ClosedHandleIsSkipped ==
  [][/\ \A d \in sent' : wsState[d.handle] = "OPEN"
     /\ \A r \in Runs :
          (r \in DOMAIN videoSessions /\ trace'[r] # trace[r]) =>
            \A h \in videoSessions[r] :
              Cardinality({d \in sent' : d.handle = h /\ d.msg.sessionId = r}) =
                (IF wsState[h] = "OPEN" THEN PublishedToRecord(NewOps(r)) ELSE 0)
     /\ \A r \in Runs :
          (pc[r] = "importing" /\ pc'[r] # "importing") =>
            (pc'[r] = "tts-fetch" /\ outcome'[r] = "none" /\ Called(r, "generate-tts")')]_vars

\* C23 witness: an event of session 1 was just sent to one handle while
\* another handle registered to the session is closing and was sent nothing.
WitnessClosingHandleSkipped ==
  \E h1, h2 \in Handles :
    /\ h1 # h2
    /\ 1 \in DOMAIN videoSessions /\ {h1, h2} \subseteq videoSessions[1]
    /\ wsState[h1] = "OPEN" /\ wsState[h2] = "CLOSING"
    /\ \E d \in sent : d.handle = h1 /\ d.msg.sessionId = 1
    /\ ~\E d \in sent : d.handle = h2
    /\ pc[1] \notin {"idle", "rejected", "done"}

LiveOnlyDelivery ==
  [][/\ \A d \in sent' :
          LET r == d.msg.sessionId
          IN /\ r \in DOMAIN videoSessions /\ d.handle \in videoSessions[r]
             /\ d.msg.timestamp > Len(trace[r])
             /\ d.msg.timestamp <= Len(trace'[r])
             /\ IsPub(trace'[r][d.msg.timestamp])
             /\ trace'[r][d.msg.timestamp].step = d.msg.step
     /\ (subscribed' # subscribed \/ ~(DOMAIN videoSessions' \subseteq DOMAIN videoSessions)) =>
          sent' = {}
     /\ \A h \in Handles : \A m \in delivered'[h] \ delivered[h] :
          m.sessionId \in subscribed[h] /\ m.timestamp > Len(trace[m.sessionId])]_vars

\* C25 witness: the first subscriber of a started run has disconnected, its
\* record was removed, and a handle that subscribed afterwards was sent the
\* terminal event and not the run's first event.
WitnessLateSubscriberSeesOnlyLater ==
  \E h1, h2 \in Handles :
    /\ h1 # h2
    /\ wsState[h1] = "CLOSED"
    /\ \E m \in delivered[h1] : m.sessionId = 1 /\ m.step = "initializing"
    /\ TerminalMsgs(h1, 1) = {}
    /\ wsState[h2] = "OPEN"
    /\ TerminalMsgs(h2, 1) # {}
    /\ ~\E m \in delivered[h2] : m.step = "initializing"

\* The timing plans the allocator has returned to run r.
Plans(r) == {trace[r][i].data.plan : i \in CallsOf(r, "calculateOptimalTimings")}

PlanSumWithinTarget ==
  \A r \in Runs : \A plan \in Plans(r) :
    /\ Len(plan) = nSegments[r]
    /\ 2 * SumSeq(plan) >= 2 * 250 - Len(plan)
    /\ 2 * SumSeq(plan) <= 2 * 400 + Len(plan)

\* C27 witness: a plan for six segments whose proportional shares, clamped,
\* added up to more than 40 s and were rescaled.
WitnessRescaledSixSegments ==
  \E r \in Runs : \E plan \in Plans(r) :
    /\ Len(plan) = 6
    /\ SumSeq(ProportionalTimings(voiceoverSegments(r))) > 400
    /\ plan # ProportionalTimings(voiceoverSegments(r))

\* The completion events of run r that carry a payload.
CompletionPayloads(r) ==
  {trace[r][i].data : i \in {j \in DOMAIN trace[r] :
     IsPub(trace[r][j]) /\ trace[r][j].step = "completed" /\ trace[r][j].data # NoData}}

\* C28: the duration reported for a successful run is the value ffprobe
\* measured on the encoded output file, whatever the requested timings add up
\* to; and a run whose probe of the output failed has failed, with the probe
\* failure as its error and no completion payload, hence no fallback duration.
ReportedDurationIsProbed ==
  \A r \in Runs :
    /\ outcome[r] = "succeeded" =>
         /\ CompletionPayloads(r) # {}
         /\ \A d \in CompletionPayloads(r) : d.duration = ffprobe.output
    /\ MsgVideoDuration(MsgProbeFailed) \in CaughtMessages(r) =>
         /\ outcome[r] = "failed"
         /\ CompletionPayloads(r) = {}
         /\ settled[r] = <<"reject">>
         /\ LastPublished(r) = "error"
         /\ trace[r][Len(trace[r])] =
              PubData("error", ErrorData(MsgVideoDuration(MsgProbeFailed)))

\* C28 witness: a run succeeded with a measured duration that is neither the
\* calculated duration of its plan nor the sum of its plan.
WitnessProbedDiffersFromPlan ==
  \E r \in Runs :
    /\ outcome[r] = "succeeded"
    /\ ffprobe.output # calculatedVideoDuration(optimizedTimings(r))
    /\ ffprobe.output # SumSeq(optimizedTimings(r))
    /\ \E d \in CompletionPayloads(r) : d.duration = ffprobe.output

\* C28 witness of the failure half: the encoder exited with 0 and the probe of
\* its output failed.
WitnessOutputProbeFailed ==
  \E r \in Runs :
    /\ MsgVideoDuration(MsgProbeFailed) \in CaughtMessages(r)
    /\ outcome[r] = "failed"

\* The timings the encoder of run r was started with.
EncodedTimings(r) == {trace[r][i].data.timings : i \in CallsOf(r, "spawn-ffmpeg")}

\* Plan p, in tenths of a second, has the values of the timings q.
SameTimings(p, q) ==
  /\ Len(p) = Len(q)
  /\ \A i \in DOMAIN p : p[i] * q[i].den = q[i].num

\* C29: the timing plan reported for a successful run is the one the encoder
\* was started with, the rescaled one whenever the timings were rescaled to
\* the audio duration.
ReportedPlanIsEncodedPlan ==
  \A r \in Runs : outcome[r] = "succeeded" =>
    \A d \in CompletionPayloads(r) : \A q \in EncodedTimings(r) :
      SameTimings(d.optimizedTimings, q)

\* The argument lists the encoder of run r was started with.
EncoderArgs(r) == {trace[r][i].data : i \in CallsOf(r, "spawn-ffmpeg")}

\* The end of the last segment on the timeline of the filter graph, in
\* milliseconds: the offset of the last transition plus the trimmed length of
\* the last segment, or the trimmed length of the only segment.
DisplayedMs(args) ==
  IF Len(args.xfades) = 0 THEN args.trims[1]
  ELSE args.xfades[Len(args.xfades)].offset + args.trims[Len(args.trims)]

\* den times (the sum of the timings less one second per transition), in
\* milliseconds, where den is the common denominator of the timings.
ExpectedMsTimesDen(args) ==
  100 * SumSeq([i \in DOMAIN args.timings |-> args.timings[i].num])
    - 1000 * (Len(args.timings) - 1) * args.timings[1].den

\* The transitions are none for one segment and n - 1 for n > 1 segments,
\* each of 1.000 s.
TransitionCount(args) ==
  /\ Len(args.timings) = Len(args.inputs)
  /\ Len(args.xfades) = IF Len(args.inputs) = 1 THEN 0 ELSE Len(args.inputs) - 1
  /\ \A i \in DOMAIN args.xfades : args.xfades[i].duration = 1000

\* C30 as stated: none or n - 1 transitions of 1.0 s each, and the displayed
\* duration is exactly the sum of the timings less (n - 1) x 1.0 s.
DisplayedDurationIsExact ==
  \A r \in Runs : \A args \in EncoderArgs(r) :
    /\ TransitionCount(args)
    /\ DisplayedMs(args) * args.timings[1].den = ExpectedMsTimesDen(args)

\* C30, to the millisecond: none or n - 1 transitions of 1.0 s each, and the
\* displayed duration is within one millisecond of the sum of the timings
\* less (n - 1) x 1.0 s.
DisplayedDurationWithinMs ==
  \A r \in Runs : \A args \in EncoderArgs(r) :
    /\ TransitionCount(args)
    /\ Abs(DisplayedMs(args) * args.timings[1].den - ExpectedMsTimesDen(args))
         <= args.timings[1].den

\* C30 witness: an encoder started for two or more segments with rescaled
\* timings, one transition fewer than segments, whose displayed duration is
\* not the exact sum less the transitions because of the three decimals.
WitnessRoundedTransitions ==
  \E r \in Runs : \E args \in EncoderArgs(r) :
    /\ Len(args.inputs) >= 2
    /\ Len(args.xfades) = Len(args.inputs) - 1
    /\ args.timings[1].den # 1
    /\ DisplayedMs(args) * args.timings[1].den # ExpectedMsTimesDen(args)

\* The plan of the first loop rescaled by targetDuration / actualTotal, each
\* value rounded to one decimal place.
RescaledToTarget(segs) ==
  LET timings == ProportionalTimings(segs)
  IN [i \in DOMAIN segs |->
        RoundDiv(10 * timings[i] * TargetNum(segs), Len(segs) * SumSeq(timings))]

\* C31: whenever the sum of the clamped durations differs from targetDuration,
\* the returned plan is the clamped plan rescaled by targetDuration /
\* actualSum and rounded to one decimal place, and it sums to targetDuration
\* up to that rounding; also when the clamped sum lies within [25, 40].
PlanRescaledWheneverOffTarget ==
  \A r \in Runs : \A plan \in Plans(r) :
    LET segs == voiceoverSegments(r)
        n == Len(segs)
    IN n * SumSeq(ProportionalTimings(segs)) # 10 * TargetNum(segs) =>
         /\ plan = RescaledToTarget(segs)
         /\ 2 * Abs(n * SumSeq(plan) - 10 * TargetNum(segs)) <= n * n

\* The weights of the segments in the calls of the allocator by run r.
Weights(r) == {trace[r][i].data.weights : i \in CallsOf(r, "calculateOptimalTimings")}

\* C32: the weight of a segment is its base value floored at 2 and then
\* multiplied by its boosts, so a boosted text whose base value is below 2
\* weighs 2 x boost.
WeightIsFlooredThenBoosted ==
  \A r \in Runs : \A w \in Weights(r) : \A i \in DOMAIN w :
    w[i] = Max(BaseWeight(voiceovers[i]), 100) * Boost(voiceovers[i])

\* den times the difference, in tenths of a second, between the sum of the
\* timings of args less one second per transition and the duration d, where
\* den is the common denominator of the timings.
DisplayedLessTimesDen(args, d) ==
  SumSeq([i \in DOMAIN args.timings |-> args.timings[i].num])
    - (10 * (Len(args.timings) - 1) + d) * args.timings[1].den

\* C33 as stated: whatever the measured audio duration, the displayed duration
\* of the timings used for encoding is within 0.5 s of it.
DisplayedWithinHalfSecondOfAudio ==
  \A r \in Runs : \A args \in EncoderArgs(r) :
    Abs(DisplayedLessTimesDen(args, ffprobe.audio)) <= 5 * args.timings[1].den

\* C33, for what the target allows: the displayed duration of the timings
\* used for encoding is within 0.5 s of the measured audio duration when that
\* lies within [25, 40] s; when it does not, the displayed duration is within
\* 0.5 s of it or is the nearer of 25 s and 40 s.
DisplayedWithinHalfSecondOfClampedAudio ==
  \A r \in Runs : \A args \in EncoderArgs(r) :
    \/ Abs(DisplayedLessTimesDen(args, ffprobe.audio)) <= 5 * args.timings[1].den
    \/ /\ ffprobe.audio < 250 \/ ffprobe.audio > 400
       /\ DisplayedLessTimesDen(args, Min(400, Max(250, ffprobe.audio))) = 0

\* C33 witness: an encoder started with timings that were rescaled to an audio
\* of 30 s, more than 0.5 s away from the calculated duration of the plan.
WitnessRescaledToAudio ==
  \E r \in Runs : \E args \in EncoderArgs(r) :
    /\ ffprobe.audio = 300
    /\ Abs(ffprobe.audio - calculatedVideoDuration(optimizedTimings(r))) > 5
    /\ args.timings[1].den # 1
    /\ DisplayedLessTimesDen(args, ffprobe.audio) = 0

\* C34: reconciliation is all-or-nothing and uniform.  When the calculated
\* duration of the input timings is within 0.5 s of the measured audio
\* duration, the timings used for encoding are the input timings; otherwise
\* every timing is the input timing times (clamp(audio, 25, 40) + (n - 1) x
\* 1.0) / rawSum, so the displayed duration of the adjusted timings is
\* clamp(audio, 25, 40) and the ratios between the timings are those of the
\* input.
ReconciliationIsAllOrNothing ==
  \A r \in Runs : \A args \in EncoderArgs(r) :
    LET plan == optimizedTimings(r)
        n == Len(plan)
        q == args.timings
        target == Min(400, Max(250, ffprobe.audio))
    IN /\ Len(q) = n
       /\ IF Abs(ffprobe.audio - calculatedVideoDuration(plan)) <= 5
          THEN SameTimings(plan, q)
          ELSE /\ \A i \in 1..n :
                    q[i].num * SumSeq(plan) = plan[i] * (target + 10 * (n - 1)) * q[i].den
               /\ DisplayedLessTimesDen(args, target) = 0
               /\ \A i, j \in 1..n :
                    /\ q[i].den = q[j].den
                    /\ q[i].num * plan[j] = q[j].num * plan[i]

\* C34 witness: two or more unequal timings were rescaled by a factor other
\* than 1.
WitnessUniformRescale ==
  \E r \in Runs : \E args \in EncoderArgs(r) :
    /\ Len(args.timings) >= 2
    /\ optimizedTimings(r)[1] # optimizedTimings(r)[2]
    /\ Abs(ffprobe.audio - calculatedVideoDuration(optimizedTimings(r))) > 5
    /\ ~SameTimings(optimizedTimings(r), args.timings)

\* The other half of the case: the durations are exactly 0.5 s apart and the
\* encoder was started with the input timings.
WitnessHalfSecondApartUnchanged ==
  \E r \in Runs : \E args \in EncoderArgs(r) :
    /\ Abs(ffprobe.audio - calculatedVideoDuration(optimizedTimings(r))) = 5
    /\ SameTimings(optimizedTimings(r), args.timings)

\* C35: for n > 1 segments, transition i is placed at the sum of the adjusted
\* durations of the first i segments less i x 1.0 s and not below 0, written
\* with three decimals; and with the plans of the allocator, reconciled, the
\* offsets are positive and strictly increasing in i.
TransitionOffsetsIncrease ==
  \A r \in Runs : \A args \in EncoderArgs(r) :
    LET q == args.timings
        n == Len(q)
        before(i) == SumSeq([j \in 1..i |-> q[j].num]) - 10 * i * q[1].den
    IN /\ DOMAIN args.xfades = 1..(n - 1)
       /\ \A i \in 1..(n - 1) :
            /\ args.xfades[i].offset = ToFixed3(Max(0, before(i)), q[1].den)
            /\ args.xfades[i].offset > (IF i = 1 THEN 0 ELSE args.xfades[i - 1].offset)

\* C35 witness: an encoder started for six segments with rescaled timings and
\* five transitions.
WitnessFiveTransitions ==
  \E r \in Runs : \E args \in EncoderArgs(r) :
    /\ Len(args.inputs) = 6
    /\ Len(args.xfades) = 5
    /\ args.timings[1].den # 1
    /\ args.xfades[5].offset > args.xfades[1].offset

\* The 'creating-video' events among ops.
ProgressEvents(ops) ==
  {ops[i] : i \in {j \in DOMAIN ops : IsPub(ops[j]) /\ ops[j].step = "creating-video"}}

\* Every event derived from a progress line carries a value within [30, 95].
LineProgressInRange ==
  \A r \in Runs : \A e \in ProgressEvents(trace[r]) :
    e.data.message = "encoding" =>
      /\ e.data.num >= 30 * e.data.den
      /\ e.data.num <= 95 * e.data.den

\* The encoder of run r has exited with code 0 when the step is taken or by
\* the step itself.
ExitedSuccessfully(r) == pc[r] = "output-probe" \/ pc'[r] = "output-probe"

\* C36 as stated: the value of an event derived from a progress line is
\* within [30, 95] whatever the elapsed time, and a value from 95 to 100 is
\* published only after the encoder has exited successfully.
ProgressFrom95OnlyAfterExit ==
  /\ [](LineProgressInRange)
  /\ [][\A r \in Runs : \A e \in ProgressEvents(NewOps(r)) :
          e.data.num >= 95 * e.data.den => ExitedSuccessfully(r)]_vars

\* C36, but for the top of the range: the value of an event derived from a
\* progress line is within [30, 95] whatever the elapsed time; a value above
\* 95, and the 95 that is not derived from a progress line, are published
\* only after the encoder has exited successfully.
ProgressAbove95OnlyAfterExit ==
  /\ [](LineProgressInRange)
  /\ [][\A r \in Runs : \A e \in ProgressEvents(NewOps(r)) :
          (e.data.num > 95 * e.data.den
             \/ (e.data.num = 95 * e.data.den /\ e.data.message # "encoding"))
            => ExitedSuccessfully(r)]_vars

\* C36 witness: a progress line reported more elapsed time than the target
\* duration while the encoder was running, and its event carries 95.
WitnessLineBeyondTarget ==
  \E r \in Runs : \E e \in ProgressEvents(trace[r]) :
    /\ e.data.message = "encoding"
    /\ e.data.num = 95 * e.data.den
    /\ e.data.den = targetDuration
    /\ ffmpeg[r] = "running"

\* The indices of the events of run r that report a success.
SuccessReports(r) ==
  {i \in DOMAIN trace[r] : IsPub(trace[r][i]) /\ trace[r][i].step = "completed"}

\* C37: the encoding step settles exactly once.  Whatever the order of the
\* timer, the exit event and the error event of the encoder, the compose
\* promise is resolved or rejected at most once, and exactly once when the run
\* that started the encoder has ended; a handler that finds the step settled
\* changes nothing; and the output file is never deleted after a success was
\* reported.
EncodingSettlesOnce ==
  /\ [](\A r \in Runs :
          /\ Len(settled[r]) <= 1
          /\ (Called(r, "spawn-ffmpeg") /\ pc[r] = "done") => Len(settled[r]) = 1
          /\ outcome[r] = "succeeded" => settled[r] = <<"resolve">>
          /\ settled[r] # << >> => isResolved[r]
          /\ \A i \in SuccessReports(r) : \A j \in DOMAIN trace[r] :
               trace[r][j] = Unlink(OutputFile(r)) => j < i)
  /\ [][\A r \in Runs :
          (isResolved[r] /\ Called(r, "spawn-ffmpeg")
             /\ (ffmpeg'[r] # ffmpeg[r] \/ timeoutArmed'[r] # timeoutArmed[r])) =>
            UNCHANGED <<settled, outcome, files, trace>>]_vars

\* C37 witness: the error handler settled the step, and the exit event of the
\* same process came afterwards and found it settled.
WitnessErrorThenExit ==
  \E r \in Runs :
    /\ MsgFfmpegSpawn \in CaughtMessages(r)
    /\ ~TimedOut(r)
    /\ ffmpeg[r] = "closed"
    /\ settled[r] = <<"reject">>

\* C38: no session record of the registry has an empty handle set.
NoEmptySessionRecord ==
  \A s \in DOMAIN videoSessions : videoSessions[s] # {}

\* C38 witness: the only handle of a session whose run never started has
\* disconnected and the record is gone, while another session still has a
\* record.
WitnessEmptiedRecordRemoved ==
  \E h \in Handles : \E s \in subscribed[h] :
    /\ wsState[h] = "CLOSED"
    /\ pc[s] = "idle"
    /\ s \notin DOMAIN videoSessions
    /\ DOMAIN videoSessions # {}

\* C39: publishing changes only the published session.  A step in which run r
\* publishes leaves the record and the handle set of every other session as
\* they were; it removes the record of r when it publishes a terminal event
\* and leaves it as it was otherwise; and when r has no record it delivers
\* nothing and leaves the registry unchanged.
PublishTouchesOnlyItsSession ==
  [][\A r \in Runs :
       (\E i \in DOMAIN NewOps(r) : IsPub(NewOps(r)[i])) =>
         /\ \A s \in SessionIds \ {r} :
              /\ s \in DOMAIN videoSessions' <=> s \in DOMAIN videoSessions
              /\ s \in DOMAIN videoSessions => videoSessions'[s] = videoSessions[s]
         /\ IF r \notin DOMAIN videoSessions
            THEN sent' = {} /\ videoSessions' = videoSessions
            ELSE IF PublishesTerminal(r)
                 THEN r \notin DOMAIN videoSessions'
                 ELSE /\ r \in DOMAIN videoSessions'
                      /\ videoSessions'[r] = videoSessions[r]]_vars

\* C39 witness: a handle is registered under both sessions, the run of one has
\* published its terminal event and lost its record, and the handle is still
\* registered under the other.
WitnessOtherSessionKept ==
  \E h \in Handles : \E a, b \in SessionIds :
    /\ a # b
    /\ subscribed[h] = {a, b}
    /\ wsState[h] = "OPEN"
    /\ pc[a] = "done"
    /\ \E m \in delivered[h] : m.sessionId = a /\ m.type \in TerminalSteps
    /\ a \notin DOMAIN videoSessions
    /\ b \in DOMAIN videoSessions /\ h \in videoSessions[b]
    /\ pc[b] # "done"
====
